---- MODULE Spec2Model ----
(***************************************************************************)
(* Model of the PCP puzzle engine, packages/pcp-engine/src/index.ts:       *)
(* generatePuzzle (settings resolver, partitioner, solvable and unsolvable *)
(* builders), validateSolution and findSolution.                           *)
(*                                                                         *)
(* A generatePuzzle call is a record call[c]; every rng() call site of the *)
(* source is one action, so a behaviour spends exactly the RNG draws the   *)
(* code spends, in the code's order.  Strings are sequences of one-letter  *)
(* symbols.  An optional value (undefined / null in the source) is the     *)
(* empty sequence, a present one the one-element sequence.                 *)
(***************************************************************************)
EXTENDS Integers, Sequences, FiniteSets, TLC

VARIABLES call, probe, args, ui

vars == <<call, probe, args, ui>>

(***************************************************************************)
(* Bounds of the model.                                                    *)
(***************************************************************************)
\* an abstract RNG draw is one of the values k/RngRes, k in 0..RngRes-1
RngRes == 4
\* the tileCount overrides tried are -1..MaxTileOverride
MaxTileOverride == 3
\* the minLength / maxLength overrides tried are 1..MaxLenOverride
MaxLenOverride == 2
\* the alphabetSize overrides tried are 1..MaxSizeOverride
MaxSizeOverride == 2
\* an input is tried when tileCount * maxLength is at most MaxTotal and
\* alphabet size ^ (tileCount * maxLength) is at most MaxTargets
MaxTotal == 6
MaxTargets == 64
\* the longest order handed to validateSolution
MaxOrderLen == 2
\* retry ceilings of the bounded exploration (the source's are the *Ceiling
\* constants below, used by the runs on a concrete seed)
BoundOuter == 2
BoundInner == 2
BoundPartition == 2
BoundTarget == 2
BoundGuard == 2
\* Math.floor(rng() * IdSpace) of makeId in the bounded exploration
BoundIdSpace == 1
\* the settings resolver on its own is tried on minLength / maxLength
\* overrides -1..MaxLengthTried, alphabetSize overrides -1..MaxSizeTried and
\* tileCount overrides -1..MaxTileTried
MaxLengthTried == 66
MaxSizeTried == 28
MaxTileTried == 26

\* the generations one session of the web app runs
MaxGenerations == 2
\* the solution row is filled up to MaxPlaced tiles by hand
MaxPlaced == 2

(***************************************************************************)
(* Program constants.                                                      *)
(***************************************************************************)
OuterCeiling == 100
InnerCeiling == 50
PartitionCeiling == 100
TargetCeiling == 60
GuardCeiling == 50
IdSpace == 1000000
TileCountLo == 2
TileCountHi == 24
MinLengthLo == 1
MinLengthHi == 48
MaxLengthHi == 64
WideLo == 5
WideHi == 6

(***************************************************************************)
(* Optional values and small helpers.                                      *)
(***************************************************************************)
None == <<>>

Some(x) == <<x>>

IsSome(o) == o # <<>>

\* a ?? b
OrElse(o, dflt) == IF o # <<>> THEN o[1] ELSE dflt

Min(a, b) == IF a < b THEN a ELSE b

Max(a, b) == IF a > b THEN a ELSE b

Range(s) == {s[i] : i \in 1..Len(s)}

RECURSIVE SumSeq(_)
SumSeq(s) == IF s = <<>> THEN 0 ELSE s[1] + SumSeq(Tail(s))

Reverse(s) == [i \in 1..Len(s) |-> s[Len(s) + 1 - i]]

\* String.prototype.slice(from, to) for 0 <= from <= to, on a 0-based string
Slice(s, from, to) ==
    LET hi == Min(to, Len(s))
    IN IF from >= hi THEN <<>> ELSE [i \in 1..(hi - from) |-> s[from + i]]

(***************************************************************************)
(* 32-bit arithmetic.  A 32-bit unsigned word is the pair <<hi, lo>> of    *)
(* its 16-bit halves, so that no intermediate value leaves 31 bits.        *)
(***************************************************************************)
\* a ^ b and a | b on 16-bit values, bit by bit
Xor16(a, b) ==
    LET x(i) == (((a \div (2 ^ i)) + (b \div (2 ^ i))) % 2) * (2 ^ i)
    IN x(0) + x(1) + x(2) + x(3) + x(4) + x(5) + x(6) + x(7)
       + x(8) + x(9) + x(10) + x(11) + x(12) + x(13) + x(14) + x(15)

Or16(a, b) ==
    LET o(i) == IF ((a \div (2 ^ i)) % 2) + ((b \div (2 ^ i)) % 2) > 0 THEN 2 ^ i ELSE 0
    IN o(0) + o(1) + o(2) + o(3) + o(4) + o(5) + o(6) + o(7)
       + o(8) + o(9) + o(10) + o(11) + o(12) + o(13) + o(14) + o(15)

\* x ^ y
Xor32(x, y) == <<Xor16(x[1], y[1]), Xor16(x[2], y[2])>>

\* x | y
Or32(x, y) == <<Or16(x[1], y[1]), Or16(x[2], y[2])>>

\* x >>> n, 0 < n < 32
Shr32(x, n) ==
    IF n >= 16 THEN <<0, x[1] \div (2 ^ (n - 16))>>
    ELSE <<x[1] \div (2 ^ n),
           (x[2] \div (2 ^ n)) + ((x[1] % (2 ^ n)) * (2 ^ (16 - n)))>>

\* x << n, 0 < n < 16
Shl32(x, n) ==
    <<((x[1] % (2 ^ (16 - n))) * (2 ^ n)) + (x[2] \div (2 ^ (16 - n))),
      (x[2] % (2 ^ (16 - n))) * (2 ^ n)>>

\* (x + y) mod 2^32
Add32(x, y) ==
    LET s == x[2] + y[2]
    IN <<(x[1] + y[1] + (s \div 65536)) % 65536, (s % 65536)>>

\* (a * d) mod 2^16 for 16-bit a, d
MulLow16(a, d) == (((a % 256) * d) + ((((a \div 256) * d) % 256) * 256)) % 65536

\* Math.imul(x, y): the low 32 bits of the product
Imul32(x, y) ==
    LET b  == x[2]
        d  == y[2]
        p0 == (b % 256) * d
        p1 == (b \div 256) * d
        l  == (p0 % 65536) + ((p1 % 256) * 256)
        bdHi == (p0 \div 65536) + (p1 \div 256) + (l \div 65536)
    IN <<(bdHi + MulLow16(x[1], d) + MulLow16(b, y[1])) % 65536, (l % 65536)>>

(***************************************************************************)
(* Seed / PRNG subsystem.                                                  *)
(***************************************************************************)
\* the 32-bit unsigned words
Word32 == (0..65535) \X (0..65535)

\* hashSeed: seed is the sequence of the string's UTF-16 code units; one
\* iteration of its loop for the code unit ch
HashStep(h, ch) ==
    LET h1 == Imul32(Xor32(h, <<0, ch>>), <<52382, 11601>>)
    IN Or32(Shl32(h1, 13), Shr32(h1, 19))

RECURSIVE HashLoop(_, _, _)
HashLoop(h, seed, i) ==
    IF i > Len(seed) THEN h
    ELSE LET h2 == HashStep(h, seed[i])
         IN IF h2 \in Word32 THEN HashLoop(h2, seed, i + 1) ELSE h2

HashSeed(seed) ==
    LET h == HashLoop(Xor32(<<27145, 58983>>, <<0, Len(seed)>>), seed, 1)
    IN Xor32(h, Shr32(h, 16))

\* mulberry32(seed): the generator's state is t
Mulberry32(seed) == [kind |-> "mulberry32", t |-> seed, tick |-> 0]

\* a generator whose state t is one module-level variable, the one call 2
\* seeded, instead of a variable of each closure
Mulberry32NextShared(rng) ==
    LET own == IF call[2].rng.kind = "mulberry32" THEN call[2].rng.t ELSE rng.t
        t  == Add32(own, <<27947, 31221>>)
        r1 == Imul32(Xor32(t, Shr32(t, 15)), Or32(<<0, 1>>, t))
        r2 == Xor32(r1, Add32(r1, Imul32(Xor32(r1, Shr32(r1, 7)), Or32(<<0, 61>>, r1))))
    IN [d |-> Xor32(r2, Shr32(r2, 14)), next |-> [rng EXCEPT !.t = t]]

\* one call of the closure mulberry32 returns: the state advanced, and the
\* 32-bit word x of the output x / 4294967296
Mulberry32Next(rng) ==
    LET t  == Add32(rng.t, <<27947, 31221>>)
        r1 == Imul32(Xor32(t, Shr32(t, 15)), Or32(<<0, 1>>, t))
        r2 == Xor32(r1, Add32(r1, Imul32(Xor32(r1, Shr32(r1, 7)), Or32(<<0, 61>>, r1))))
    IN [d |-> Xor32(r2, Shr32(r2, 14)), next |-> [rng EXCEPT !.t = t]]

\* the RNG of the bounded exploration: any output stream.  tick is the
\* parity of the number of draws made, all the state such a stream has.
AnyRng == [kind |-> "any", t |-> <<0, 0>>, tick |-> 0]

AnyRngNext(rng) ==
    {[d |-> <<((k * 65536) + RngRes - 1) \div RngRes, 0>>,
      next |-> [rng EXCEPT !.tick = 1 - @]] : k \in 0..(RngRes - 1)}

\* the outcomes of one rng() call
Draws(rng) == IF rng.kind = "any" THEN AnyRngNext(rng) ELSE {Mulberry32Next(rng)}

\* Math.floor(rng() * n) for the draw d = <<hi, lo>> and 0 <= n < 32768
ScaleFloor(d, n) == ((d[1] * n) + ((d[2] * n) \div 65536)) \div 65536

\* Math.floor(rng() * 1e6): 1e6 = 15625 * 64
ScaleFloorMillion(d) == ((d[1] * 15625) + ((d[2] * 15625) \div 65536)) \div 1024

\* rng() > 0.6: x / 2^32 > 0.6 iff x >= 2576980378 = 39321 * 65536 + 39322
GreaterThanSixTenths(d) == d[1] > 39321 \/ (d[1] = 39321 /\ d[2] >= 39322)

(***************************************************************************)
(* Settings resolver.                                                      *)
(***************************************************************************)
ALPHABET_POOL ==
    <<"a", "b", "c", "d", "e", "f", "g", "h", "i", "j", "k", "l", "m",
      "n", "o", "p", "q", "r", "s", "t", "u", "v", "w", "x", "y", "z">>

PresetNames == {"easy", "medium", "hard", "tricky", "expert"}

PRESETS ==
    [easy   |-> [tileCount |-> 3, tileCountRange |-> None,
                 alphabet |-> SubSeq(ALPHABET_POOL, 1, 2),
                 minLength |-> 2, maxLength |-> 3,
                 allowUnsolvable |-> FALSE, forceUnique |-> TRUE],
     medium |-> [tileCount |-> 5, tileCountRange |-> None,
                 alphabet |-> SubSeq(ALPHABET_POOL, 1, 3),
                 minLength |-> 2, maxLength |-> 4,
                 allowUnsolvable |-> FALSE, forceUnique |-> TRUE],
     hard   |-> [tileCount |-> 7, tileCountRange |-> None,
                 alphabet |-> SubSeq(ALPHABET_POOL, 1, 3),
                 minLength |-> 3, maxLength |-> 5,
                 allowUnsolvable |-> FALSE, forceUnique |-> TRUE],
     tricky |-> [tileCount |-> 6, tileCountRange |-> None,
                 alphabet |-> SubSeq(ALPHABET_POOL, 1, 3),
                 minLength |-> 2, maxLength |-> 4,
                 allowUnsolvable |-> FALSE, forceUnique |-> FALSE],
     expert |-> [tileCount |-> 9, tileCountRange |-> Some(<<8, 10>>),
                 alphabet |-> SubSeq(ALPHABET_POOL, 1, 5),
                 minLength |-> 4, maxLength |-> 7,
                 allowUnsolvable |-> TRUE, forceUnique |-> TRUE]]

\* clampInt without Math.max
clampIntNoFloor(value, lo, hi) == Min(hi, value)

\* clampInt on integers (Math.round is the identity on them)
clampInt(value, lo, hi) == Min(hi, Max(lo, value))

\* buildAlphabet clamping the size from above only
buildAlphabetNoFloor(size) ==
    SubSeq(ALPHABET_POOL, 1, Max(0, Min(size, Len(ALPHABET_POOL))))

buildAlphabet(size) == SubSeq(ALPHABET_POOL, 1, clampInt(size, 1, Len(ALPHABET_POOL)))

\* no overrides at all
NoOverrides ==
    [tileCount |-> None, minLength |-> None, maxLength |-> None,
     alphabet |-> None, alphabetSize |-> None, allowUnsolvable |-> None,
     forceUnique |-> None, theme |-> None]

\* resolveSettings draws from the RNG iff overrides.tileCount is nullish
ResolveDraws(ov) == ov.tileCount = None

\* resolveSettings(preset, rng, overrides); d is the draw taken when
\* ResolveDraws(ov), else unused
resolveSettings(preset, d, ov) ==
    LET base == PRESETS[preset]
        tileCountRange ==
            IF ov.tileCount # None /\ ov.tileCount[1] # 0
            THEN <<ov.tileCount[1], ov.tileCount[1]>>
            ELSE OrElse(base.tileCountRange, <<base.tileCount, base.tileCount>>)
        tileCountSpan == tileCountRange[2] - tileCountRange[1] + 1
        tileCount ==
            IF ov.tileCount # None THEN ov.tileCount[1]
            ELSE clampInt(tileCountRange[1] + ScaleFloor(d, tileCountSpan),
                          TileCountLo, TileCountHi)
        minLength == clampInt(OrElse(ov.minLength, base.minLength), MinLengthLo, MinLengthHi)
        maxLength == clampInt(OrElse(ov.maxLength, base.maxLength), minLength, MaxLengthHi)
        theme == OrElse(ov.theme, "preset")
        alphabetSize ==
            OrElse(ov.alphabetSize,
                   IF ov.alphabet # None THEN Len(ov.alphabet[1]) ELSE Len(base.alphabet))
        alphabet ==
            IF ov.alphabet # None THEN ov.alphabet[1]
            ELSE IF theme = "binary" THEN <<"0", "1">>
            ELSE IF theme = "wide"
                 THEN buildAlphabet(clampInt(Max(alphabetSize, WideLo), WideLo, WideHi))
            ELSE buildAlphabet(alphabetSize)
    IN [tileCount |-> tileCount, tileCountRange |-> tileCountRange,
        alphabet |-> alphabet, minLength |-> minLength, maxLength |-> maxLength,
        allowUnsolvable |-> OrElse(ov.allowUnsolvable, base.allowUnsolvable),
        forceUnique |-> OrElse(ov.forceUnique, base.forceUnique),
        theme |-> theme]

(***************************************************************************)
(* String helpers.                                                         *)
(***************************************************************************)
\* what out += alphabet[idx] appends when alphabet is empty: idx is NaN,
\* alphabet[NaN] is undefined, and += appends the text "undefined"
UndefinedText == <<"u", "n", "d", "e", "f", "i", "n", "e", "d">>

\* one iteration of randomString's loop: the text appended for the draw d
randomStringStep(d, alphabet) ==
    IF Len(alphabet) = 0 THEN UndefinedText
    ELSE <<alphabet[(ScaleFloor(d, Len(alphabet)) % Len(alphabet)) + 1]>>

\* alphabet.find((c) => c !== current) ?? current
RECURSIVE FirstOther(_, _, _)
FirstOther(alphabet, current, i) ==
    IF i > Len(alphabet) THEN current
    ELSE IF alphabet[i] # current THEN alphabet[i]
    ELSE FirstOther(alphabet, current, i + 1)

\* tweakString for a non-empty value; d is its one draw
tweakString(d, value, alphabet) ==
    LET idx == ScaleFloor(d, Len(value))
        replacement == FirstOther(alphabet, value[idx + 1], 1)
    IN [j \in 1..Len(value) |-> IF j = idx + 1 THEN replacement ELSE value[j]]

\* the key `${top}|${bottom}` of the seen sets
KeyOf(top, bottom) == top \o <<"|">> \o bottom

(***************************************************************************)
(* Partitioner helpers.                                                    *)
(***************************************************************************)
\* Array.from(cuts).sort((a, b) => a - b)
RECURSIVE SortSet(_)
SortSet(S) ==
    IF S = {} THEN <<>>
    ELSE LET m == CHOOSE x \in S : \A y \in S : x <= y
         IN <<m>> \o SortSet(S \ {m})

\* one attempt of randomPartition without the `len > maxLen` test
PartitionLensMinOnly(cuts, total, minLen, maxLen) ==
    LET sorted == <<0>> \o SortSet(cuts) \o <<total>>
        lens == [i \in 1..(Len(sorted) - 1) |-> sorted[i + 1] - sorted[i]]
    IN IF \A i \in 1..Len(lens) : lens[i] >= minLen
       THEN Some(lens) ELSE None

\* the segment lengths of one attempt of randomPartition, or None when one
\* of them is outside [minLen, maxLen]
PartitionLens(cuts, total, minLen, maxLen) ==
    LET sorted == <<0>> \o SortSet(cuts) \o <<total>>
        lens == [i \in 1..(Len(sorted) - 1) |-> sorted[i + 1] - sorted[i]]
    IN IF \A i \in 1..Len(lens) : lens[i] >= minLen /\ lens[i] <= maxLen
       THEN Some(lens) ELSE None

\* the first line of randomPartition
Infeasible(total, count, minLen, maxLen) ==
    total < count * minLen \/ total > count * maxLen

RECURSIVE ForceEqualLoop(_, _, _, _, _, _, _)
ForceEqualLoop(topParts, bottomParts, maxAlignedEquals, i, topOffset, bottomOffset, alignedEquals) ==
    IF i > Len(topParts) THEN FALSE
    ELSE LET hit == topOffset = bottomOffset /\ i <= Len(bottomParts)
                    /\ topParts[i] = bottomParts[i]
             n == IF hit THEN alignedEquals + 1 ELSE alignedEquals
         IN IF hit /\ n > maxAlignedEquals THEN TRUE
            ELSE ForceEqualLoop(topParts, bottomParts, maxAlignedEquals, i + 1,
                                topOffset + topParts[i],
                                bottomOffset + (IF i <= Len(bottomParts) THEN bottomParts[i] ELSE 0),
                                n)

partitionsForceEqualTile(topParts, bottomParts, maxAlignedEquals) ==
    ForceEqualLoop(topParts, bottomParts, maxAlignedEquals, 1, 0, 0, 0)

\* topParts.some((len, idx) => len !== bottomParts[idx])
HasDiff(topParts, bottomParts) ==
    \E i \in 1..Len(topParts) : i > Len(bottomParts) \/ topParts[i] # bottomParts[i]

\* the array `base` of the fallback: tileCount entries minLen, then
\* base[0] and base[1] assigned (which makes the array at least 2 long)
FallbackBase(tileCount, minLen, maxLen) ==
    [i \in 1..Max(tileCount, 2) |-> IF i = 2 THEN Min(maxLen, minLen + 1) ELSE minLen]

\* Math.round(x * 0.6) for an integer x: x * 0.6 is never a tie
RoundSixTenths(x) == ((6 * x) + 5) \div 10

(***************************************************************************)
(* Validator and solution accessor.  A puzzle is a record with the fields  *)
(* of PuzzleInstance; its solution is optional.                            *)
(***************************************************************************)
\* new Map(puzzle.tiles.map((t) => [t.id, t])).get(id): the last tile with
\* that id, or None
ById(tiles, id) ==
    LET hits == {i \in 1..Len(tiles) : tiles[i].id = id}
    IN IF hits = {} THEN None
       ELSE Some(tiles[CHOOSE i \in hits : \A j \in hits : j <= i])

\* ValidateLoop comparing only the lengths of the two concatenations
RECURSIVE ValidateLoopLengths(_, _, _, _, _)
ValidateLoopLengths(tiles, order, i, top, bottom) ==
    IF i > Len(order) THEN Len(top) = Len(bottom)
    ELSE LET tile == ById(tiles, order[i])
         IN IF tile = None THEN FALSE
            ELSE ValidateLoopLengths(tiles, order, i + 1,
                                     top \o tile[1].top, bottom \o tile[1].bottom)

RECURSIVE ValidateLoop(_, _, _, _, _)
ValidateLoop(tiles, order, i, top, bottom) ==
    IF i > Len(order) THEN top = bottom
    ELSE LET tile == ById(tiles, order[i])
         IN IF tile = None THEN FALSE
            ELSE ValidateLoop(tiles, order, i + 1, top \o tile[1].top, bottom \o tile[1].bottom)

\* validateSolution without the `order.length === 0` test
validateSolutionNoEmptyTest(puzzle, order) ==
    ValidateLoop(puzzle.tiles, order, 1, <<>>, <<>>)

validateSolution(puzzle, order) ==
    IF Len(order) = 0 THEN FALSE
    ELSE ValidateLoop(puzzle.tiles, order, 1, <<>>, <<>>)

\* findSolution without the `!puzzle.solvable` test
findSolutionIgnoringFlag(puzzle) ==
    IF puzzle.solution # None THEN Some(puzzle.solution[1]) ELSE None

\* findSolution returning puzzle.solution itself
FoundArrayAliased(puzzle) == "solution"

\* which array findSolution hands out: `[...puzzle.solution]` is a new one
FoundArray(puzzle) == "fresh"

\* null is None
findSolution(puzzle) ==
    IF ~puzzle.solvable THEN None
    ELSE IF puzzle.solution # None THEN Some(puzzle.solution[1]) ELSE None

(***************************************************************************)
(* A generatePuzzle call.                                                  *)
(*   pc        where the call is: the rng() call site or loop head it is   *)
(*             about to execute, "returned" or "thrown"                    *)
(*   lim       the retry ceilings and id space the run uses                *)
(*   v         the local variables of generatePuzzle / buildSolvableTiles  *)
(*             / randomPartition                                           *)
(*   ret       the PuzzleInstance returned                                 *)
(***************************************************************************)
SourceLim ==
    [rng |-> "mulberry32", outer |-> OuterCeiling, inner |-> InnerCeiling,
     partition |-> PartitionCeiling, target |-> TargetCeiling,
     guard |-> GuardCeiling, idSpace |-> IdSpace]

BoundedLim ==
    [rng |-> "any", outer |-> BoundOuter, inner |-> BoundInner,
     partition |-> BoundPartition, target |-> BoundTarget,
     guard |-> BoundGuard, idSpace |-> BoundIdSpace]

NoSettings ==
    [tileCount |-> 0, tileCountRange |-> <<0, 0>>, alphabet |-> <<>>,
     minLength |-> 0, maxLength |-> 0, allowUnsolvable |-> FALSE,
     forceUnique |-> FALSE, theme |-> "preset"]

NoPuzzle ==
    [seed |-> <<>>, preset |-> "easy", settings |-> NoSettings, tiles |-> <<>>,
     solvable |-> FALSE, solution |-> None]

NoRng == [kind |-> "none", t |-> <<0, 0>>, tick |-> 0]

Locals ==
    [attempts |-> 0, tries |-> 0, base |-> 0, totalLength |-> 0,
     which |-> "top", pAttempts |-> 0, cuts |-> {},
     topParts |-> None, bottomParts |-> None,
     targetAttempt |-> 0, target |-> <<>>, k |-> 0,
     tiles |-> <<>>, solution |-> <<>>, seen |-> {}, i |-> 0,
     topOffset |-> 0, bottomOffset |-> 0,
     guard |-> 0, top |-> <<>>, bottom |-> <<>>, topLen |-> 0, bottomLen |-> 0,
     key |-> <<>>]

NewCall(preset, seedIn, ov, lim) ==
    [pc |-> "start", preset |-> preset, seedIn |-> seedIn, ov |-> ov, lim |-> lim,
     seed |-> <<>>, rng |-> NoRng, settings |-> NoSettings, v |-> Locals,
     ret |-> NoPuzzle]

IdleCall == [NewCall("easy", None, NoOverrides, BoundedLim) EXCEPT !.pc = "idle"]

\* call c ended
Done(c) == call[c].pc \in {"returned", "thrown"}

\* return <instance>: the locals and the rng closure are gone
Return(s, puzzle) ==
    [s EXCEPT !.pc = "returned", !.ret = puzzle, !.v = Locals, !.rng = NoRng]

\* throw new Error("Failed to generate a solvable tile set.")
Throw(s) == [s EXCEPT !.pc = "thrown", !.v = Locals, !.rng = NoRng]

\* String.prototype.trim on code units
WhiteSpace == {9, 10, 11, 12, 13, 32}

RECURSIVE TrimLeft(_)
TrimLeft(str) ==
    IF str # <<>> /\ str[1] \in WhiteSpace THEN TrimLeft(Tail(str)) ELSE str

Trim(str) == Reverse(TrimLeft(Reverse(TrimLeft(str))))

\* deriveSeed that never uses the seed it is given
deriveSeedAlwaysFresh(seed, fresh) == fresh

\* deriveSeed; fresh is what crypto.randomUUID() / Math.random() gives
deriveSeed(seed, fresh) ==
    IF seed # None /\ Len(Trim(seed[1])) > 0 THEN Trim(seed[1]) ELSE fresh

\* makeId: the id `tile-${idx}-${n.toString(36)}` is the pair <<idx, n>>
makeId(d, idx, lim) ==
    <<idx, IF lim.idSpace = IdSpace THEN ScaleFloorMillion(d) ELSE ScaleFloor(d, lim.idSpace)>>

\* the constants buildSolvableTiles derives from the settings
SMinLen(st) == Max(1, st.minLength)

SMaxLen(st) == Max(SMinLen(st), st.maxLength)

SMinTotal(st) == st.tileCount * SMinLen(st)

SMaxTotal(st) == st.tileCount * SMaxLen(st)

RequireUnique(st) == st.forceUnique # FALSE

\* the tolerance 1 for every tile count
MaxAlignedEqualsLoose(st) ==
    IF RequireUnique(st) THEN 1 ELSE st.tileCount

MaxAlignedEquals(st) ==
    IF RequireUnique(st) THEN (IF st.tileCount >= 6 THEN 1 ELSE 0) ELSE st.tileCount

(***************************************************************************)
(* generatePuzzle, unsolvable branch: the steps between two rng() calls.   *)
(***************************************************************************)
UnsolvablePuzzle(s) ==
    [seed |-> s.seed, preset |-> s.preset, settings |-> s.settings,
     tiles |-> s.v.tiles, solvable |-> FALSE, solution |-> None]

\* Array.from({ length: tileCount }).map(...): the next tile, or the return
UTileHead(s) ==
    IF Len(s.v.tiles) >= s.settings.tileCount THEN Return(s, UnsolvablePuzzle(s))
    ELSE [s EXCEPT !.pc = "uTopLen", !.v.guard = 0, !.v.top = <<>>,
                   !.v.bottom = <<>>, !.v.key = <<>>, !.v.k = 0,
                   !.v.topLen = 0, !.v.bottomLen = 0]

\* minLength + Math.floor(rng() * Math.max(1, maxLength - minLength + 1))
ULength(d, st) == st.minLength + ScaleFloor(d, Max(1, st.maxLength - st.minLength + 1))

\* the end of the do-while body: key, guard++, the loop condition, and
\* after the loop the test `if (top === bottom)`
UAfterTry(s) ==
    LET key == KeyOf(s.v.top, s.v.bottom)
        guard == s.v.guard + 1
    IN IF (key \in s.v.seen \/ s.v.top = s.v.bottom) /\ guard < s.lim.guard
       THEN [s EXCEPT !.pc = "uTopLen", !.v.key = <<>>, !.v.guard = guard, !.v.k = 0,
                      !.v.top = <<>>, !.v.bottom = <<>>,
                      !.v.topLen = 0, !.v.bottomLen = 0]
       ELSE [s EXCEPT !.pc = IF s.v.top = s.v.bottom /\ Len(s.v.bottom) > 0
                             THEN "uFinalTweak" ELSE "uId",
                      !.v.key = key, !.v.guard = guard, !.v.k = 0]

UTopLenStep(s, d) ==
    [s EXCEPT !.pc = "uBottomLen", !.v.topLen = ULength(d, s.settings)]

UBottomLenStep(s, d) ==
    [s EXCEPT !.pc = "uTop", !.v.bottomLen = ULength(d, s.settings), !.v.k = 0]

UTopCharStep(s, d) ==
    LET t == [s EXCEPT !.v.top = @ \o randomStringStep(d, s.settings.alphabet),
                       !.v.k = @ + 1]
    IN IF t.v.k >= t.v.topLen THEN [t EXCEPT !.pc = "uBottom", !.v.k = 0] ELSE t

UBottomCharStep(s, d) ==
    LET t == [s EXCEPT !.v.bottom = @ \o randomStringStep(d, s.settings.alphabet),
                       !.v.k = @ + 1]
    IN IF t.v.k < t.v.bottomLen THEN t
       ELSE IF t.v.bottom = t.v.top THEN [t EXCEPT !.pc = "uTweak", !.v.k = 0]
       ELSE UAfterTry(t)

UTweakStep(s, d) ==
    UAfterTry([s EXCEPT !.v.bottom = tweakString(d, @, s.settings.alphabet)])

UFinalTweakStep(s, d) ==
    [s EXCEPT !.pc = "uId", !.v.bottom = tweakString(d, @, s.settings.alphabet)]

UMakeIdStep(s, d) ==
    UTileHead([s EXCEPT
        !.v.seen = @ \cup {s.v.key},
        !.v.tiles = Append(@, [id |-> makeId(d, Len(s.v.tiles), s.lim),
                               top |-> s.v.top, bottom |-> s.v.bottom])])

(***************************************************************************)
(* buildSolvableTiles and randomPartition: the steps between rng() calls.  *)
(***************************************************************************)
\* the instance recording the display order of the tiles as its solution
SolvablePuzzleDisplayOrder(s, shuffled) ==
    [seed |-> s.seed, preset |-> s.preset, settings |-> s.settings,
     tiles |-> shuffled, solvable |-> TRUE,
     solution |-> Some([i \in 1..Len(shuffled) |-> shuffled[i].id])]

SolvablePuzzle(s, shuffled) ==
    [seed |-> s.seed, preset |-> s.preset, settings |-> s.settings,
     tiles |-> shuffled, solvable |-> TRUE, solution |-> Some(s.v.solution)]

\* `attempts++` and back to the head of the outer loop
NextOuter(s) ==
    [s EXCEPT !.pc = "sOuter", !.v = [Locals EXCEPT !.attempts = s.v.attempts + 1]]

\* shuffle: i runs from out.length - 1 down to 1
SShuffleStart(s) ==
    IF Len(s.v.tiles) - 1 > 0
    THEN [s EXCEPT !.pc = "sShuffle", !.v.i = Len(s.v.tiles) - 1,
                   !.v.top = <<>>, !.v.bottom = <<>>, !.v.key = <<>>]
    ELSE Return(s, SolvablePuzzle(s, s.v.tiles))

SShuffleStep(s, d) ==
    LET i == s.v.i
        j == ScaleFloor(d, i + 1)
        out == [n \in 1..Len(s.v.tiles) |->
                   IF n = i + 1 THEN s.v.tiles[j + 1]
                   ELSE IF n = j + 1 THEN s.v.tiles[i + 1]
                   ELSE s.v.tiles[n]]
    IN IF i - 1 > 0 THEN [s EXCEPT !.v.tiles = out, !.v.i = i - 1]
       ELSE Return(s, SolvablePuzzle(s, out))

\* STileLoop without the `topSlice === bottomSlice` test
STileLoopNoEqualTest(s) ==
    IF s.v.i >= s.settings.tileCount THEN SShuffleStart(s)
    ELSE LET topLen == s.v.topParts[1][s.v.i + 1]
             bottomLen == s.v.bottomParts[1][s.v.i + 1]
             topSlice == Slice(s.v.target, s.v.topOffset, s.v.topOffset + topLen)
             bottomSlice == Slice(s.v.target, s.v.bottomOffset, s.v.bottomOffset + bottomLen)
         IN IF KeyOf(topSlice, bottomSlice) \in s.v.seen
            THEN [s EXCEPT !.pc = "sTarget", !.v.targetAttempt = @ + 1,
                           !.v.target = <<>>, !.v.tiles = <<>>, !.v.solution = <<>>,
                           !.v.seen = {}, !.v.i = 0, !.v.topOffset = 0,
                           !.v.bottomOffset = 0, !.v.top = <<>>, !.v.bottom = <<>>,
                           !.v.key = <<>>]
            ELSE [s EXCEPT !.pc = "sId", !.v.top = topSlice, !.v.bottom = bottomSlice,
                           !.v.key = KeyOf(topSlice, bottomSlice)]

\* STileLoop without the `seen.has(key)` test
STileLoopNoSeen(s) ==
    IF s.v.i >= s.settings.tileCount THEN SShuffleStart(s)
    ELSE LET topLen == s.v.topParts[1][s.v.i + 1]
             bottomLen == s.v.bottomParts[1][s.v.i + 1]
             topSlice == Slice(s.v.target, s.v.topOffset, s.v.topOffset + topLen)
             bottomSlice == Slice(s.v.target, s.v.bottomOffset, s.v.bottomOffset + bottomLen)
         IN IF topSlice = bottomSlice
            THEN [s EXCEPT !.pc = "sTarget", !.v.targetAttempt = @ + 1,
                           !.v.target = <<>>, !.v.tiles = <<>>, !.v.solution = <<>>,
                           !.v.seen = {}, !.v.i = 0, !.v.topOffset = 0,
                           !.v.bottomOffset = 0, !.v.top = <<>>, !.v.bottom = <<>>,
                           !.v.key = <<>>]
            ELSE [s EXCEPT !.pc = "sId", !.v.top = topSlice, !.v.bottom = bottomSlice,
                           !.v.key = KeyOf(topSlice, bottomSlice)]

\* the head of the tile loop `for (i < tileCount)`: the two slices and the
\* `seen.has(key) || topSlice === bottomSlice` test; then `if (!invalid)`
STileLoop(s) ==
    IF s.v.i >= s.settings.tileCount THEN SShuffleStart(s)
    ELSE LET topLen == s.v.topParts[1][s.v.i + 1]
             bottomLen == s.v.bottomParts[1][s.v.i + 1]
             topSlice == Slice(s.v.target, s.v.topOffset, s.v.topOffset + topLen)
             bottomSlice == Slice(s.v.target, s.v.bottomOffset, s.v.bottomOffset + bottomLen)
             key == KeyOf(topSlice, bottomSlice)
         IN IF key \in s.v.seen \/ topSlice = bottomSlice
            THEN [s EXCEPT !.pc = "sTarget", !.v.targetAttempt = @ + 1,
                           !.v.target = <<>>, !.v.tiles = <<>>, !.v.solution = <<>>,
                           !.v.seen = {}, !.v.i = 0, !.v.topOffset = 0,
                           !.v.bottomOffset = 0, !.v.top = <<>>, !.v.bottom = <<>>,
                           !.v.key = <<>>]
            ELSE [s EXCEPT !.pc = "sId", !.v.top = topSlice, !.v.bottom = bottomSlice,
                           !.v.key = key]

SMakeIdStep(s, d) ==
    LET id == makeId(d, s.v.i, s.lim)
    IN STileLoop([s EXCEPT
           !.v.tiles = Append(@, [id |-> id, top |-> s.v.top, bottom |-> s.v.bottom]),
           !.v.solution = Append(@, id),
           !.v.seen = @ \cup {s.v.key},
           !.v.topOffset = @ + s.v.topParts[1][s.v.i + 1],
           !.v.bottomOffset = @ + s.v.bottomParts[1][s.v.i + 1],
           !.v.i = @ + 1])

STileStart(s) ==
    STileLoop([s EXCEPT !.v.tiles = <<>>, !.v.solution = <<>>, !.v.seen = {},
                        !.v.i = 0, !.v.topOffset = 0, !.v.bottomOffset = 0, !.v.k = 0])

\* one iteration of randomString(rng, alphabet, totalLength)
SCharStep(s, d) ==
    LET t == [s EXCEPT !.v.target = @ \o randomStringStep(d, s.settings.alphabet),
                       !.v.k = @ + 1]
    IN IF t.v.k >= t.v.totalLength THEN STileStart(t) ELSE t

\* the head of `for (targetAttempt < 60)`, and after it `attempts++`
STargetHead(s) ==
    IF s.v.targetAttempt >= s.lim.target THEN NextOuter(s)
    ELSE IF s.v.totalLength > 0
         THEN [s EXCEPT !.pc = "sChar", !.v.target = <<>>, !.v.k = 0]
         ELSE STileStart([s EXCEPT !.v.target = <<>>])

\* after the inner loop: the fallback pair, then the alignment test
SAfterInner(s) ==
    LET st == s.settings
        base == FallbackBase(st.tileCount, SMinLen(st), SMaxLen(st))
        t == IF s.v.topParts = None \/ s.v.bottomParts = None
             THEN [s EXCEPT !.v.topParts = Some(base),
                            !.v.bottomParts = Some(Reverse(base)),
                            !.v.totalLength = SumSeq(base)]
             ELSE s
    IN IF RequireUnique(st)
          /\ partitionsForceEqualTile(t.v.topParts[1], t.v.bottomParts[1], MaxAlignedEquals(st))
       THEN NextOuter(t)
       ELSE [t EXCEPT !.pc = "sTarget", !.v.targetAttempt = 0, !.v.tries = 0]

\* the end of the inner loop's body (hasDiff / forcedMatch, tries++) and
\* the loop condition
STryEnd(s) ==
    LET st == s.settings
        both == s.v.topParts # None /\ s.v.bottomParts # None
        reject == both /\ (~HasDiff(s.v.topParts[1], s.v.bottomParts[1])
                           \/ (RequireUnique(st)
                               /\ partitionsForceEqualTile(s.v.topParts[1], s.v.bottomParts[1],
                                                           MaxAlignedEquals(st))))
        t == [s EXCEPT !.v.topParts = IF reject THEN None ELSE @,
                       !.v.bottomParts = IF reject THEN None ELSE @,
                       !.v.tries = @ + 1, !.v.which = "top",
                       !.v.pAttempts = 0, !.v.cuts = {}]
    IN IF t.v.tries < t.lim.inner /\ (t.v.topParts = None \/ t.v.bottomParts = None)
       THEN [t EXCEPT !.pc = "sBase"]
       ELSE SAfterInner(t)

\* randomPartition returns `res` to buildSolvableTiles
PReturnBottom(s, res) == STryEnd([s EXCEPT !.v.bottomParts = res])

PEnterBottom(s) ==
    LET st == s.settings
    IN IF Infeasible(s.v.totalLength, st.tileCount, SMinLen(st), SMaxLen(st))
       THEN PReturnBottom(s, None)
       ELSE [s EXCEPT !.pc = "pAttempt", !.v.which = "bottom",
                      !.v.pAttempts = 0, !.v.cuts = {}]

PReturnTop(s, res) == PEnterBottom([s EXCEPT !.v.topParts = res])

PEnterTop(s) ==
    LET st == s.settings
    IN IF Infeasible(s.v.totalLength, st.tileCount, SMinLen(st), SMaxLen(st))
       THEN PReturnTop(s, None)
       ELSE [s EXCEPT !.pc = "pAttempt", !.v.which = "top",
                      !.v.pAttempts = 0, !.v.cuts = {}]

PReturn(s, res) ==
    IF s.v.which = "top" THEN PReturnTop(s, res) ELSE PReturnBottom(s, res)

\* the cut set is complete: the segment lengths, `if (ok) return lens`,
\* else `attempts++`
PCheck(s) ==
    LET st == s.settings
        lens == PartitionLens(s.v.cuts, s.v.totalLength, SMinLen(st), SMaxLen(st))
    IN IF lens # None THEN PReturn(s, lens)
       ELSE [s EXCEPT !.pc = "pAttempt", !.v.pAttempts = @ + 1, !.v.cuts = {}]

\* the head of randomPartition's `while (attempts < 100)` and of the cut loop
PAttemptHead(s) ==
    IF s.v.pAttempts >= s.lim.partition THEN PReturn(s, None)
    ELSE IF 0 < s.settings.tileCount - 1 THEN [s EXCEPT !.pc = "pCut", !.v.cuts = {}]
    ELSE PCheck([s EXCEPT !.v.cuts = {}])

\* cuts.add(1 + Math.floor(rng() * (total - 1))) and the cut loop's test
PCutStep(s, d) ==
    LET t == [s EXCEPT !.v.cuts = @ \cup {1 + ScaleFloor(d, s.v.totalLength - 1)}]
    IN IF Cardinality(t.v.cuts) < t.settings.tileCount - 1 THEN t ELSE PCheck(t)

SBaseStep(s, d) ==
    LET st == s.settings
        spread == SMaxTotal(st) - SMinTotal(st)
    IN [s EXCEPT !.pc = "sTotal",
                 !.v.base = SMinTotal(st)
                            + ScaleFloor(d, Max(1, Min(spread, RoundSixTenths(spread))))]

STotalStep(s, d) ==
    LET st == s.settings
    IN PEnterTop([s EXCEPT
           !.v.totalLength =
               Min(SMaxTotal(st),
                   Max(SMinTotal(st),
                       s.v.base + ScaleFloor(d, SMaxLen(st) - SMinLen(st) + 1))),
           !.v.base = 0])

\* SOuterHead giving up one attempt early
SOuterHeadEarlyThrow(s) ==
    IF s.v.attempts >= s.lim.outer - 1 THEN Throw(s)
    ELSE LET t == [s EXCEPT !.v = [Locals EXCEPT !.attempts = s.v.attempts]]
         IN IF 0 < t.lim.inner THEN [t EXCEPT !.pc = "sBase"] ELSE SAfterInner(t)

\* the head of `while (attempts < 100)`, the resets, and the first test of
\* the inner loop; after the loop `throw`
SOuterHead(s) ==
    IF s.v.attempts >= s.lim.outer THEN Throw(s)
    ELSE LET t == [s EXCEPT !.v = [Locals EXCEPT !.attempts = s.v.attempts]]
         IN IF 0 < t.lim.inner THEN [t EXCEPT !.pc = "sBase"] ELSE SAfterInner(t)

(***************************************************************************)
(* The actions of call c: one per rng() call site and loop head.           *)
(***************************************************************************)
\* what crypto.randomUUID() may return
FreshSeeds == {<<117, 49>>, <<117, 50>>}

\* call c becomes t
Becomes(c, t) == call' = [call EXCEPT ![c] = t] /\ UNCHANGED <<probe, args, ui>>

\* call c after the rng() call with outcome x
Drawn(c, x) == [call[c] EXCEPT !.rng = x.next]

\* generatePuzzle: deriveSeed and mulberry32(hashSeed(actualSeed))
GenStart(c) ==
    /\ call[c].pc = "start"
    /\ \E fresh \in FreshSeeds :
          LET actualSeed == deriveSeed(call[c].seedIn, fresh)
          IN Becomes(c, [call[c] EXCEPT
                 !.pc = "resolve", !.seed = actualSeed, !.seedIn = None,
                 !.rng = IF call[c].lim.rng = "any" THEN AnyRng
                         ELSE Mulberry32(HashSeed(actualSeed))])

ResolveStep(s, d) ==
    [s EXCEPT !.pc = "branch", !.settings = resolveSettings(s.preset, d, s.ov),
              !.ov = NoOverrides]

\* resolveSettings, when it draws the tile count
ResolveDraw(c) ==
    /\ call[c].pc = "resolve"
    /\ ResolveDraws(call[c].ov)
    /\ \E x \in Draws(call[c].rng) : Becomes(c, ResolveStep(Drawn(c, x), x.d))

\* resolveSettings, when overrides.tileCount is given
ResolveNoDraw(c) ==
    /\ call[c].pc = "resolve"
    /\ ~ResolveDraws(call[c].ov)
    /\ Becomes(c, ResolveStep(call[c], <<0, 0>>))

\* shouldBeUnsolvable, and the branch taken
BranchStep(s, shouldBeUnsolvable) ==
    IF shouldBeUnsolvable THEN UTileHead(s) ELSE [s EXCEPT !.pc = "sOuter"]

\* the branch taken when the draw is 0.5 or more
BranchDrawStepHalf(s, d) == BranchStep(s, d[1] >= 32768)

BranchDrawStep(s, d) == BranchStep(s, GreaterThanSixTenths(d))

\* settings.allowUnsolvable && rng() > 0.6, allowUnsolvable set
BranchDraw(c) ==
    /\ call[c].pc = "branch"
    /\ call[c].settings.allowUnsolvable
    /\ \E x \in Draws(call[c].rng) : Becomes(c, BranchDrawStep(Drawn(c, x), x.d))

\* allowUnsolvable unset: && does not evaluate rng()
BranchNoDraw(c) ==
    /\ call[c].pc = "branch"
    /\ ~call[c].settings.allowUnsolvable
    /\ Becomes(c, BranchStep(call[c], FALSE))

UTopLen(c) ==
    /\ call[c].pc = "uTopLen"
    /\ \E x \in Draws(call[c].rng) : Becomes(c, UTopLenStep(Drawn(c, x), x.d))

UBottomLen(c) ==
    /\ call[c].pc = "uBottomLen"
    /\ \E x \in Draws(call[c].rng) : Becomes(c, UBottomLenStep(Drawn(c, x), x.d))

UTopChar(c) ==
    /\ call[c].pc = "uTop"
    /\ \E x \in Draws(call[c].rng) : Becomes(c, UTopCharStep(Drawn(c, x), x.d))

UBottomChar(c) ==
    /\ call[c].pc = "uBottom"
    /\ \E x \in Draws(call[c].rng) : Becomes(c, UBottomCharStep(Drawn(c, x), x.d))

UTweak(c) ==
    /\ call[c].pc = "uTweak"
    /\ \E x \in Draws(call[c].rng) : Becomes(c, UTweakStep(Drawn(c, x), x.d))

UFinalTweak(c) ==
    /\ call[c].pc = "uFinalTweak"
    /\ \E x \in Draws(call[c].rng) : Becomes(c, UFinalTweakStep(Drawn(c, x), x.d))

UMakeId(c) ==
    /\ call[c].pc = "uId"
    /\ \E x \in Draws(call[c].rng) : Becomes(c, UMakeIdStep(Drawn(c, x), x.d))

OuterAttempt(c) == call[c].pc = "sOuter" /\ Becomes(c, SOuterHead(call[c]))

DrawBase(c) ==
    /\ call[c].pc = "sBase"
    /\ \E x \in Draws(call[c].rng) : Becomes(c, SBaseStep(Drawn(c, x), x.d))

DrawTotal(c) ==
    /\ call[c].pc = "sTotal"
    /\ \E x \in Draws(call[c].rng) : Becomes(c, STotalStep(Drawn(c, x), x.d))

PartitionAttempt(c) == call[c].pc = "pAttempt" /\ Becomes(c, PAttemptHead(call[c]))

DrawCut(c) ==
    /\ call[c].pc = "pCut"
    /\ \E x \in Draws(call[c].rng) : Becomes(c, PCutStep(Drawn(c, x), x.d))

TargetAttempt(c) == call[c].pc = "sTarget" /\ Becomes(c, STargetHead(call[c]))

DrawChar(c) ==
    /\ call[c].pc = "sChar"
    /\ \E x \in Draws(call[c].rng) : Becomes(c, SCharStep(Drawn(c, x), x.d))

MakeId(c) ==
    /\ call[c].pc = "sId"
    /\ \E x \in Draws(call[c].rng) : Becomes(c, SMakeIdStep(Drawn(c, x), x.d))

ShuffleDraw(c) ==
    /\ call[c].pc = "sShuffle"
    /\ \E x \in Draws(call[c].rng) : Becomes(c, SShuffleStep(Drawn(c, x), x.d))

Generate(c) ==
    \/ GenStart(c)
    \/ ResolveDraw(c)
    \/ ResolveNoDraw(c)
    \/ BranchDraw(c)
    \/ BranchNoDraw(c)
    \/ UTopLen(c)
    \/ UBottomLen(c)
    \/ UTopChar(c)
    \/ UBottomChar(c)
    \/ UTweak(c)
    \/ UFinalTweak(c)
    \/ UMakeId(c)
    \/ OuterAttempt(c)
    \/ DrawBase(c)
    \/ DrawTotal(c)
    \/ PartitionAttempt(c)
    \/ DrawCut(c)
    \/ TargetAttempt(c)
    \/ DrawChar(c)
    \/ MakeId(c)
    \/ ShuffleDraw(c)

(***************************************************************************)
(* The accessors, applied to the instance call 1 returned.  probe records  *)
(* the last accessor call: its argument and its result.                    *)
(***************************************************************************)
NoProbe ==
    [op |-> "none", cleared |-> FALSE, order |-> <<>>, found |-> None, ok |-> FALSE,
     ref |-> "none"]

\* an id no generated tile has
ForeignId == <<0 - 1, 0>>

RECURSIVE SeqsUpTo(_, _)
SeqsUpTo(S, n) ==
    IF n = 0 THEN {<<>>}
    ELSE LET shorter == SeqsUpTo(S, n - 1)
         IN shorter \cup {Append(q, x) : q \in shorter, x \in S}

\* the orders tried on a puzzle: its ids and a foreign one, repeats allowed
Orders(puzzle) ==
    SeqsUpTo({puzzle.tiles[i].id : i \in 1..Len(puzzle.tiles)} \cup {ForeignId}, MaxOrderLen)

\* validateSolution(puzzle, order)
Validate ==
    /\ call[1].pc = "returned"
    /\ \E order \in Orders(call[1].ret) :
          probe' = [NoProbe EXCEPT !.op = "validateSolution", !.order = order,
                                   !.ok = validateSolution(call[1].ret, order)]
    /\ UNCHANGED <<call, args, ui>>

\* findSolution(puzzle), on the returned instance or on a copy of it whose
\* solvable flag the caller has cleared
FindSolution ==
    /\ call[1].pc = "returned"
    /\ \E cleared \in BOOLEAN :
          LET puzzle == IF cleared THEN [call[1].ret EXCEPT !.solvable = FALSE]
                        ELSE call[1].ret
          IN probe' = [NoProbe EXCEPT !.op = "findSolution", !.cleared = cleared,
                                      !.found = findSolution(puzzle),
                                      !.ref = IF findSolution(puzzle) # None
                                              THEN FoundArray(puzzle) ELSE "none"]
    /\ UNCHANGED <<call, args, ui>>

\* validateSolution(puzzle, findSolution(puzzle))
ValidateFound ==
    /\ call[1].pc = "returned"
    /\ findSolution(call[1].ret) # None
    /\ probe' = [NoProbe EXCEPT
                    !.op = "validateFound",
                    !.found = findSolution(call[1].ret),
                    !.order = findSolution(call[1].ret)[1],
                    !.ok = validateSolution(call[1].ret, findSolution(call[1].ret)[1])]
    /\ UNCHANGED <<call, args, ui>>

(***************************************************************************)
(* The web app's share codes (apps/web/src/App.tsx).  Text is a sequence   *)
(* of UTF-16 code units, like a seed.                                      *)
(***************************************************************************)
\* "|" and ":"
Bar == 124

Colon == 58

presetOrder == <<"easy", "medium", "hard", "tricky", "expert">>

\* the preset names and theme names as text
PresetText ==
    [easy |-> <<101, 97, 115, 121>>, medium |-> <<109, 101, 100, 105, 117, 109>>,
     hard |-> <<104, 97, 114, 100>>, tricky |-> <<116, 114, 105, 99, 107, 121>>,
     expert |-> <<101, 120, 112, 101, 114, 116>>]

ThemeText ==
    [preset |-> <<112, 114, 101, 115, 101, 116>>,
     binary |-> <<98, 105, 110, 97, 114, 121>>, wide |-> <<119, 105, 100, 101>>]

\* the token prefixes "tc", "min", "max", "a", "uns", "uniq", "th", "lad"
TcText == <<116, 99>>

MinText == <<109, 105, 110>>

MaxText == <<109, 97, 120>>

AText == <<97>>

UnsText == <<117, 110, 115>>

UniqText == <<117, 110, 105, 113>>

ThText == <<116, 104>>

LadText == <<108, 97, 100>>

\* `${n}` for an integer n
RECURSIVE DecimalText(_)
DecimalText(n) ==
    IF n < 0 THEN <<45>> \o DecimalText(0 - n)
    ELSE IF n < 10 THEN <<48 + n>>
    ELSE DecimalText(n \div 10) \o <<48 + (n % 10)>>

\* tokens.join("|")
RECURSIVE Join(_, _)
Join(parts, sep) ==
    IF parts = <<>> THEN <<>>
    ELSE IF Len(parts) = 1 THEN parts[1]
    ELSE parts[1] \o <<sep>> \o Join(Tail(parts), sep)

\* text.split(sep), sep one code unit
RECURSIVE SplitLoop(_, _, _, _)
SplitLoop(text, sep, i, cur) ==
    IF i > Len(text) THEN <<cur>>
    ELSE IF text[i] = sep THEN <<cur>> \o SplitLoop(text, sep, i + 1, <<>>)
    ELSE SplitLoop(text, sep, i + 1, Append(cur, text[i]))

Split(text, sep) == SplitLoop(text, sep, 1, <<>>)

\* parts.filter(Boolean): the empty string is falsy
NonEmptyParts(parts) == SelectSeq(parts, LAMBDA part : part # <<>>)

StartsWith(text, prefix) ==
    Len(text) >= Len(prefix) /\ SubSeq(text, 1, Len(prefix)) = prefix

\* token.slice(n)
Drop(text, n) == SubSeq(text, n + 1, Len(text))

IsDigits(text) == \A i \in 1..Len(text) : text[i] \in 48..57

RECURSIVE DigitsValue(_)
DigitsValue(text) ==
    IF text = <<>> THEN 0
    ELSE (10 * DigitsValue(SubSeq(text, 1, Len(text) - 1))) + (text[Len(text)] - 48)

\* Number(text) for text that is blank, or decimal digits with an optional
\* sign; NaN (None) for other text (no point, exponent or radix prefix
\* occurs in the codes tried)
NumberOf(text) ==
    LET t == Trim(text)
    IN IF t = <<>> THEN Some(0)
       ELSE IF IsDigits(t) THEN Some(DigitsValue(t))
       ELSE IF t[1] \in {43, 45} /\ Len(t) > 1 /\ IsDigits(Tail(t))
            THEN Some(IF t[1] = 45 THEN 0 - DigitsValue(Tail(t)) ELSE DigitsValue(Tail(t)))
       ELSE None

\* settings.theme ?? "preset" (the presets have no theme)
ThemeOf(settings) ==
    IF "theme" \in DOMAIN settings THEN settings.theme ELSE "preset"

\* normalizeKnobs; the knob values are integers
normalizeKnobs(value) ==
    LET minLength == Min(48, Max(1, value.minLength))
        maxLength == Min(64, Max(minLength, value.maxLength))
        tileCount == Min(16, Max(2, value.tileCount))
        alphabetSizeRaw == Min(26, Max(1, value.alphabetSize))
        theme == IF value.theme = "binary" \/ value.theme = "wide"
                 THEN value.theme ELSE "preset"
        alphabetSize ==
            IF theme = "binary" THEN 2
            ELSE IF theme = "wide" THEN Min(6, Max(5, alphabetSizeRaw))
            ELSE alphabetSizeRaw
    IN [tileCount |-> tileCount, minLength |-> minLength, maxLength |-> maxLength,
        alphabetSize |-> alphabetSize, allowUnsolvable |-> value.allowUnsolvable,
        forceUnique |-> value.forceUnique, theme |-> theme]

settingsToKnobs(settings) ==
    normalizeKnobs([tileCount |-> settings.tileCount,
                    minLength |-> settings.minLength,
                    maxLength |-> settings.maxLength,
                    alphabetSize |-> Len(settings.alphabet),
                    allowUnsolvable |-> settings.allowUnsolvable,
                    forceUnique |-> settings.forceUnique,
                    theme |-> ThemeOf(settings)])

presetDefaults == [name \in PresetNames |-> settingsToKnobs(PRESETS[name])]

\* a Partial<KnobState> with no key
NoKnobs ==
    [tileCount |-> None, minLength |-> None, maxLength |-> None,
     alphabetSize |-> None, allowUnsolvable |-> None, forceUnique |-> None,
     theme |-> None]

\* formatSeedPayload(seed, preset, knobs, ladderLevels)
formatSeedPayload(seed, preset, knobs, ladderLevels) ==
    LET flag(b) == IF b THEN <<49>> ELSE <<48>>
        tokens == <<seed, PresetText[preset],
                    TcText \o DecimalText(knobs.tileCount),
                    MinText \o DecimalText(knobs.minLength),
                    MaxText \o DecimalText(knobs.maxLength),
                    AText \o DecimalText(knobs.alphabetSize),
                    UnsText \o flag(knobs.allowUnsolvable),
                    UniqText \o flag(knobs.forceUnique)>>
        themed == IF knobs.theme # "preset"
                  THEN Append(tokens, ThText \o ThemeText[knobs.theme]) ELSE tokens
    IN Join(IF ladderLevels # None /\ ladderLevels[1] > 1
            THEN Append(themed, LadText \o DecimalText(ladderLevels[1])) ELSE themed,
            Bar)

\* presetOrder.includes(text), and the preset so named
IsPresetText(text) == \E name \in PresetNames : PresetText[name] = text

PresetNamed(text) == CHOOSE name \in PresetNames : PresetText[name] = text

\* the first loop of parseSeedPayload: the first token naming a preset is
\* the preset, the other tokens are knob tokens
RECURSIVE SortTokens(_, _, _, _)
SortTokens(tokens, i, preset, knobTokens) ==
    IF i > Len(tokens) THEN [preset |-> preset, knobTokens |-> knobTokens]
    ELSE IF preset = None /\ IsPresetText(tokens[i])
         THEN SortTokens(tokens, i + 1, Some(PresetNamed(tokens[i])), knobTokens)
    ELSE SortTokens(tokens, i + 1, preset, Append(knobTokens, tokens[i]))

\* one iteration of the second loop: acc holds knobs and ladderLevels
ParseKnobToken(acc, token) ==
    LET num(n) == NumberOf(Drop(token, n))
        flag(n) == Some(IF num(n) = None THEN TRUE ELSE num(n)[1] > 0)
        themes == {th \in {"binary", "wide", "preset"} : ThemeText[th] = Drop(token, 2)}
    IN IF StartsWith(token, TcText)
       THEN (IF num(2) # None THEN [acc EXCEPT !.knobs.tileCount = num(2)] ELSE acc)
       ELSE IF StartsWith(token, MinText)
       THEN (IF num(3) # None THEN [acc EXCEPT !.knobs.minLength = num(3)] ELSE acc)
       ELSE IF StartsWith(token, MaxText)
       THEN (IF num(3) # None THEN [acc EXCEPT !.knobs.maxLength = num(3)] ELSE acc)
       ELSE IF StartsWith(token, AText)
       THEN (IF num(1) # None THEN [acc EXCEPT !.knobs.alphabetSize = num(1)] ELSE acc)
       ELSE IF StartsWith(token, UnsText)
       THEN [acc EXCEPT !.knobs.allowUnsolvable = flag(3)]
       ELSE IF StartsWith(token, UniqText)
       THEN [acc EXCEPT !.knobs.forceUnique = flag(4)]
       ELSE IF StartsWith(token, ThText)
       THEN (IF themes # {} THEN [acc EXCEPT !.knobs.theme = Some(CHOOSE th \in themes : TRUE)]
             ELSE acc)
       ELSE IF StartsWith(token, LadText)
       THEN (IF num(3) # None THEN [acc EXCEPT !.ladderLevels = num(3)] ELSE acc)
       ELSE acc

RECURSIVE ParseKnobTokens(_, _, _)
ParseKnobTokens(acc, knobTokens, i) ==
    IF i > Len(knobTokens) THEN acc
    ELSE ParseKnobTokens(ParseKnobToken(acc, knobTokens[i]), knobTokens, i + 1)

\* what parseSeedPayload returns for the empty text
NothingParsed == [seed |-> None, preset |-> None, knobs |-> None, ladderLevels |-> None]

parseSeedPayload(raw) ==
    LET trimmed == Trim(raw)
        byColon == Split(trimmed, Colon)
        parts == NonEmptyParts(Split(trimmed, Bar))
        sorted == SortTokens(Tail(parts), 1, None, <<>>)
        parsed == ParseKnobTokens([knobs |-> NoKnobs, ladderLevels |-> None],
                                  sorted.knobTokens, 1)
    IN IF trimmed = <<>> THEN NothingParsed
       ELSE IF Bar \notin Range(trimmed) /\ Colon \in Range(trimmed)
       THEN [NothingParsed EXCEPT
                !.seed = Some(byColon[1]),
                !.preset = IF IsPresetText(byColon[2]) THEN Some(PresetNamed(byColon[2]))
                           ELSE None]
       ELSE IF parts = <<>> THEN NothingParsed
       ELSE [seed |-> Some(parts[1]), preset |-> sorted.preset,
             knobs |-> IF parsed.knobs # NoKnobs THEN Some(parsed.knobs) ELSE None,
             ladderLevels |-> parsed.ladderLevels]

\* knobsToOverrides: every knob becomes an override, never an alphabet
knobsToOverrides(value) ==
    [tileCount |-> Some(value.tileCount), minLength |-> Some(value.minLength),
     maxLength |-> Some(value.maxLength), alphabet |-> None,
     alphabetSize |-> Some(value.alphabetSize),
     allowUnsolvable |-> Some(value.allowUnsolvable),
     forceUnique |-> Some(value.forceUnique), theme |-> Some(value.theme)]

\* { ...older, ...newer } for a full record older and a partial newer
Spread(older, newer) ==
    [k \in DOMAIN older |-> IF newer[k] # None THEN newer[k][1] ELSE older[k]]

\* a full KnobState as a partial one
AllKeys(knobs) == [k \in DOMAIN knobs |-> Some(knobs[k])]

resolvePresetAndKnobs(parsed, currentPreset, currentKnobs) ==
    LET effectivePreset == OrElse(parsed.preset, currentPreset)
        baseKnobs == presetDefaults[effectivePreset]
        allowCurrent == effectivePreset = currentPreset
        mergedKnobs ==
            normalizeKnobs(
                Spread(Spread(baseKnobs, OrElse(parsed.knobs, NoKnobs)),
                       IF allowCurrent THEN AllKeys(currentKnobs) ELSE NoKnobs))
    IN [preset |-> effectivePreset, knobs |-> mergedKnobs]

\* what a caller may do to the array findSolution gave it
Changed(found) ==
    {IF found # <<>> THEN Tail(found) ELSE found, Append(found, ForeignId),
     Reverse(found)} \ {found}

\* the caller changes the array the last findSolution call returned, then
\* calls findSolution again; probe.order is the changed array.  The change
\* reaches puzzle.solution when the array is puzzle.solution itself.
MutateFound ==
    /\ call[1].pc = "returned"
    /\ probe.op = "findSolution"
    /\ probe.found # None
    /\ \E changed \in Changed(probe.found[1]) :
          LET puzzle == IF probe.ref = "solution"
                        THEN [call[1].ret EXCEPT !.solution = Some(changed)]
                        ELSE call[1].ret
          IN /\ call' = [call EXCEPT ![1].ret = puzzle]
             /\ probe' = [NoProbe EXCEPT !.op = "mutateFound", !.order = changed,
                                         !.found = findSolution(puzzle),
                                         !.ref = IF findSolution(puzzle) # None
                                                 THEN FoundArray(puzzle) ELSE "none"]
    /\ UNCHANGED <<args, ui>>

(***************************************************************************)
(* The web app (apps/web/src/App.tsx): the control deck's state and its    *)
(* handlers.  A handler that calls generatePuzzle runs call 1 to its end   *)
(* before any other handler starts; handler says which one is running.     *)
(* shared, pasted, replayed and outcome record which puzzle the share code *)
(* on the clipboard stands for and what its replay gave.                   *)
(***************************************************************************)
\* the useState initial values
InitialUi ==
    [preset |-> "easy", knobs |-> presetDefaults["easy"], seedInput |-> <<>>,
     puzzle |-> None, handler |-> "none", effectivePreset |-> "easy",
     clipboard |-> None, shared |-> None, pasted |-> FALSE,
     replayed |-> None, outcome |-> "none", generations |-> 0,
     slots |-> <<>>, status |-> "idle", startTime |-> None,
     ladder |-> None, puzzles |-> <<>>]

\* resetProgress, on the record of state values
resetProgress(u) == [u EXCEPT !.slots = <<>>, !.status = "idle", !.startTime = None]

\* parsed.seed || undefined
SeedArgument(parsed) ==
    IF parsed.seed = None \/ parsed.seed[1] = <<>> THEN None ELSE parsed.seed

\* parsed.ladderLevels && parsed.ladderLevels > 1: the ladder handler, which
\* is not followed here
WantsLadder(parsed) == parsed.ladderLevels # None /\ parsed.ladderLevels[1] > 1

\* what the seed field is typed into: a share code made in another session
\* f|medium|tc3|min2|max3|a1|uns1|uniq1
ForeignCode ==
    formatSeedPayload(<<102>>, "medium",
        [tileCount |-> 3, minLength |-> 2, maxLength |-> 3, alphabetSize |-> 1,
         allowUnsolvable |-> TRUE, forceUnique |-> TRUE, theme |-> "preset"], None)

TypedSeeds == {ForeignCode}

\* the numbers typed into the tile count field
TypedTileCounts == {0, 2}

\* the presets picked in the preset menu
PickedPresets == {"medium"}

\* handleGenerate, up to the generatePuzzle call
UIGenerate ==
    /\ ui.handler = "none"
    /\ ui.generations < MaxGenerations
    /\ LET parsed == parseSeedPayload(ui.seedInput)
           resolved == resolvePresetAndKnobs(parsed, ui.preset, ui.knobs)
       IN /\ ~WantsLadder(parsed)
          /\ call' = [call EXCEPT ![1] =
                         NewCall(resolved.preset, SeedArgument(parsed),
                                 knobsToOverrides(resolved.knobs), SourceLim)]
          /\ ui' = [ui EXCEPT !.handler = "generate",
                              !.effectivePreset = resolved.preset,
                              !.generations = @ + 1]
    /\ UNCHANGED <<probe, args>>

\* handlePresetChange, up to the generatePuzzle call
UIPresetChange ==
    /\ ui.handler = "none"
    /\ ui.generations < MaxGenerations
    /\ \E nextPreset \in PickedPresets :
          /\ call' = [call EXCEPT ![1] =
                         NewCall(nextPreset, None,
                                 knobsToOverrides(presetDefaults[nextPreset]), SourceLim)]
          /\ ui' = [ui EXCEPT !.handler = "presetChange",
                              !.effectivePreset = nextPreset,
                              !.pasted = FALSE,
                              !.generations = @ + 1]
    /\ UNCHANGED <<probe, args>>

\* the rest of handleGenerate and handlePresetChange: the setState calls
\* after generatePuzzle returned, none when it threw
UIGenerated ==
    /\ ui.handler \in {"generate", "presetChange"}
    /\ Done(1)
    /\ LET next == call[1].ret
           appliedKnobs == settingsToKnobs(next.settings)
           replay == ui.handler = "generate" /\ ui.pasted
       IN ui' = IF call[1].pc = "returned"
                THEN [resetProgress(ui) EXCEPT
                         !.handler = "none",
                         !.ladder = None,
                         !.preset = ui.effectivePreset,
                         !.knobs = appliedKnobs,
                         !.puzzle = Some(next),
                         !.seedInput = formatSeedPayload(next.seed, ui.effectivePreset,
                                                         appliedKnobs, None),
                         !.pasted = FALSE,
                         !.replayed = IF replay THEN ui.shared ELSE None,
                         !.outcome = IF replay THEN "returned" ELSE "none"]
                ELSE [ui EXCEPT
                         !.handler = "none",
                         !.replayed = IF replay THEN ui.shared ELSE None,
                         !.outcome = IF replay THEN "thrown" ELSE "none"]
    /\ UNCHANGED <<call, probe, args>>

\* the tile count field's onChange
UIEditTileCount ==
    /\ ui.handler = "none"
    /\ \E typed \in TypedTileCounts :
          ui' = [ui EXCEPT !.knobs =
                    normalizeKnobs([ui.knobs EXCEPT !.tileCount =
                                       IF typed # 0 THEN typed ELSE ui.knobs.tileCount])]
    /\ UNCHANGED <<call, probe, args>>

\* the seed field's onChange, typing
UITypeSeed ==
    /\ ui.handler = "none"
    /\ \E typed \in TypedSeeds :
          ui' = [ui EXCEPT !.seedInput = typed, !.pasted = FALSE]
    /\ UNCHANGED <<call, probe, args>>

\* the seed field's onChange, pasting the clipboard
UIPasteSeed ==
    /\ ui.handler = "none"
    /\ ui.clipboard # None
    /\ ui' = [ui EXCEPT !.seedInput = ui.clipboard[1], !.pasted = TRUE]
    /\ UNCHANGED <<call, probe, args>>

\* onShareSeed, with a clipboard to write to and no ladder
UIShareSeed ==
    /\ ui.handler = "none"
    /\ ui.puzzle # None
    /\ ui.ladder = None
    /\ LET puzzle == ui.puzzle[1]
           payload == formatSeedPayload(puzzle.seed, puzzle.preset,
                                        settingsToKnobs(puzzle.settings), None)
       IN ui' = [ui EXCEPT !.clipboard = Some(payload), !.shared = ui.puzzle,
                           !.pasted = FALSE]
    /\ UNCHANGED <<call, probe, args>>

(***************************************************************************)
(* The web app's play state: status, startTime, the solution row (slots)   *)
(* and the ladder.  A tile is placed by dragging it from the tray onto a   *)
(* zone of the solution row: onDragStart sets drag, the drop calls         *)
(* placeTile, which clears it, so drag is empty between two operations.    *)
(* The effect on [slots] runs before the next operation and is part of     *)
(* the step that changed slots.                                            *)
(***************************************************************************)
\* what Date.now() gives
Clock == {1}

\* evaluateWin marking every non-empty row as solved
evaluateWinNoCheck(u, nextSlots) ==
    IF u.puzzle = None \/ nextSlots = <<>> THEN u
    ELSE [u EXCEPT !.status = "solved", !.startTime = None]

\* evaluateWin; the ids in slots are non-empty strings, so filter(Boolean)
\* keeps them all
evaluateWin(u, nextSlots) ==
    IF u.puzzle = None THEN u
    ELSE IF nextSlots = <<>> THEN u
    ELSE IF validateSolution(u.puzzle[1], nextSlots)
         THEN [u EXCEPT !.status = "solved", !.startTime = None]
         ELSE u

\* useEffect(() => { if (!puzzle) return; evaluateWin(slots) }, [slots])
SlotsEffect(u) == evaluateWin(u, u.slots)

\* the tiles dragged: the first MaxPlaced tiles made
DraggedIds(puzzle) ==
    {puzzle.tiles[i].id : i \in {n \in 1..Len(puzzle.tiles) : puzzle.tiles[n].id[1] < MaxPlaced}}

\* next.splice(targetIndex, 0, currentId)
SpliceIn(row, targetIndex, currentId) ==
    SubSeq(row, 1, Min(targetIndex, Len(row))) \o <<currentId>>
        \o SubSeq(row, Min(targetIndex, Len(row)) + 1, Len(row))

\* the row placeTile makes
PlacedRow(row, targetIndex, mode, currentId, limit) ==
    LET next == IF mode = "insert" THEN SpliceIn(row, targetIndex, currentId)
                ELSE IF targetIndex >= Len(row) THEN Append(row, currentId)
                ELSE [row EXCEPT ![targetIndex + 1] = currentId]
    IN IF Len(next) > limit THEN SubSeq(next, 1, limit) ELSE next

\* handleStart
UIStart ==
    /\ ui.handler = "none"
    /\ ui.puzzle # None
    /\ \E now \in Clock :
          ui' = SlotsEffect([ui EXCEPT !.slots = <<>>, !.startTime = Some(now),
                                       !.status = "playing"])
    /\ UNCHANGED <<call, probe, args>>

\* placeTile, for a tile dragged onto a zone of the row
UIPlaceTile ==
    /\ ui.handler = "none"
    /\ ui.puzzle # None
    /\ \E currentId \in DraggedIds(ui.puzzle[1]), mode \in {"insert", "replace"},
          targetIndex \in 0..Len(ui.slots), now \in Clock :
          LET next == PlacedRow(ui.slots, targetIndex, mode, currentId,
                                ui.puzzle[1].settings.tileCount)
              started == IF ui.status # "playing"
                         THEN [ui EXCEPT !.status = "playing",
                                         !.startTime = IF ui.startTime = None
                                                       THEN Some(now) ELSE @]
                         ELSE ui
          IN /\ mode = "replace" => targetIndex < Len(ui.slots)
             /\ Len(next) <= MaxPlaced
             /\ ui' = SlotsEffect([started EXCEPT !.slots = next])
    /\ UNCHANGED <<call, probe, args>>

\* onShowSolution
UIShowSolution ==
    /\ ui.handler = "none"
    /\ ui.puzzle # None
    /\ LET puzzle == ui.puzzle[1]
           solution == findSolution(puzzle)
       IN ui' = IF solution # None
                THEN SlotsEffect([ui EXCEPT
                         !.slots = SubSeq(solution[1], 1,
                                          Min(Len(solution[1]), puzzle.settings.tileCount)),
                         !.status = "solved", !.startTime = None])
                ELSE [ui EXCEPT !.status = "unsolved", !.startTime = None]
    /\ UNCHANGED <<call, probe, args>>

\* onClearSolution
UIClearSolution ==
    /\ ui.handler = "none"
    /\ ui.puzzle # None
    /\ ui' = SlotsEffect([ui EXCEPT !.slots = <<>>, !.status = "playing"])
    /\ UNCHANGED <<call, probe, args>>

\* onGiveUp
UIGiveUp ==
    /\ ui.handler = "none"
    /\ ui' = [ui EXCEPT !.startTime = None, !.status = "idle"]
    /\ UNCHANGED <<call, probe, args>>

\* onResetStats
UIResetStats ==
    /\ ui.handler = "none"
    /\ ui' = IF ui.puzzle # None
             THEN SlotsEffect([ui EXCEPT !.startTime = None, !.status = "idle",
                                         !.slots = <<>>])
             ELSE [ui EXCEPT !.startTime = None, !.status = "idle"]
    /\ UNCHANGED <<call, probe, args>>

\* levelKnobs of handleGenerateLadder
levelKnobs(mergedKnobs, level) ==
    LET baseAlphabet == IF mergedKnobs.theme = "binary" THEN 2
                        ELSE IF mergedKnobs.theme = "wide"
                        THEN Max(5, mergedKnobs.alphabetSize)
                        ELSE mergedKnobs.alphabetSize
        grownAlphabet == IF mergedKnobs.theme = "binary" THEN 2
                         ELSE IF mergedKnobs.theme = "wide" THEN Min(6, baseAlphabet + level)
                         ELSE Min(26, baseAlphabet + level)
    IN normalizeKnobs([mergedKnobs EXCEPT
                          !.minLength = @ + level,
                          !.maxLength = @ + ((level + 1) \div 2),
                          !.alphabetSize = grownAlphabet])

\* Math.max(2, Math.min(10, levelsInput))
LadderLevels(parsed) == Max(2, Min(10, parsed.ladderLevels[1]))

\* `-L${i}`
LevelSuffix(i) == <<45, 76>> \o DecimalText(i)

\* handleGenerate handing over to handleGenerateLadder, up to the first
\* generatePuzzle call
UIGenerateLadder ==
    /\ ui.handler = "none"
    /\ ui.generations < MaxGenerations
    /\ LET parsed == parseSeedPayload(ui.seedInput)
           resolved == resolvePresetAndKnobs(parsed, ui.preset, ui.knobs)
       IN /\ WantsLadder(parsed)
          /\ call' = [call EXCEPT ![1] =
                         NewCall(resolved.preset, SeedArgument(parsed),
                                 knobsToOverrides(levelKnobs(resolved.knobs, 0)),
                                 SourceLim)]
          /\ ui' = [ui EXCEPT !.handler = "ladder",
                              !.effectivePreset = resolved.preset,
                              !.puzzles = <<>>,
                              !.generations = @ + 1]
    /\ UNCHANGED <<probe, args>>

\* handleGenerateLadder between two generatePuzzle calls: the puzzle made
\* is pushed and the next level is generated on the seed `${baseSeed}-L${i}`
UILadderLevel ==
    /\ ui.handler = "ladder"
    /\ call[1].pc = "returned"
    /\ LET parsed == parseSeedPayload(ui.seedInput)
           resolved == resolvePresetAndKnobs(parsed, ui.preset, ui.knobs)
           puzzles == Append(ui.puzzles, call[1].ret)
           i == Len(puzzles)
       IN /\ i < LadderLevels(parsed)
          /\ call' = [call EXCEPT ![1] =
                         NewCall(resolved.preset,
                                 Some(puzzles[1].seed \o LevelSuffix(i)),
                                 knobsToOverrides(levelKnobs(resolved.knobs, i)),
                                 SourceLim)]
          /\ ui' = [ui EXCEPT !.puzzles = puzzles]
    /\ UNCHANGED <<probe, args>>

\* the rest of handleGenerateLadder: the setState calls after the last
\* level, none when a generatePuzzle call threw
UILadderGenerated ==
    /\ ui.handler = "ladder"
    /\ Done(1)
    /\ LET parsed == parseSeedPayload(ui.seedInput)
           levels == LadderLevels(parsed)
           puzzles == Append(ui.puzzles, call[1].ret)
           firstPuzzle == puzzles[1]
           appliedKnobs == settingsToKnobs(firstPuzzle.settings)
       IN /\ call[1].pc = "returned" => Len(puzzles) = levels
          /\ ui' = IF call[1].pc = "returned"
                   THEN [resetProgress(ui) EXCEPT
                            !.handler = "none",
                            !.ladder = Some([baseSeed |-> firstPuzzle.seed,
                                             puzzles |-> puzzles, index |-> 0]),
                            !.preset = ui.effectivePreset,
                            !.knobs = appliedKnobs,
                            !.puzzle = Some(firstPuzzle),
                            !.puzzles = <<>>,
                            !.seedInput = formatSeedPayload(firstPuzzle.seed,
                                              ui.effectivePreset, appliedKnobs,
                                              Some(levels)),
                            !.pasted = FALSE]
                   ELSE [ui EXCEPT !.handler = "none", !.puzzles = <<>>]
    /\ UNCHANGED <<call, probe, args>>

\* moveToLadderLevel, from the previous / next buttons
UIMoveToLadderLevel ==
    /\ ui.handler = "none"
    /\ ui.ladder # None
    /\ LET ladder == ui.ladder[1]
       IN \E targetIndex \in {ladder.index - 1, ladder.index + 1} :
             LET clamped == Min(Max(targetIndex, 0), Len(ladder.puzzles) - 1)
                 nextPuzzle == ladder.puzzles[clamped + 1]
             IN /\ targetIndex < ladder.index => ladder.index # 0
                /\ targetIndex > ladder.index => ladder.index < Len(ladder.puzzles) - 1
                /\ ui' = [resetProgress(ui) EXCEPT
                             !.ladder = Some([ladder EXCEPT !.index = clamped]),
                             !.puzzle = Some(nextPuzzle),
                             !.knobs = settingsToKnobs(nextPuzzle.settings),
                             !.seedInput =
                                 formatSeedPayload(ladder.baseSeed, nextPuzzle.preset,
                                     settingsToKnobs(ladder.puzzles[1].settings),
                                     Some(Len(ladder.puzzles))),
                             !.pasted = FALSE]
    /\ UNCHANGED <<call, probe, args>>

\* the share codes typed into the seed field while playing: ForeignCode,
\* whose instance of three tiles is flagged unsolvable, and a ladder of two
\* levels, s|hard|tc2|min1|max2|a2|uns0|uniq1|lad2
LadderCode ==
    formatSeedPayload(<<115>>, "hard",
        [tileCount |-> 2, minLength |-> 1, maxLength |-> 2, alphabetSize |-> 2,
         allowUnsolvable |-> FALSE, forceUnique |-> TRUE, theme |-> "preset"], Some(2))

PlayCodes == {ForeignCode, LadderCode}

\* the seed field's onChange, typing one of the play codes
UITypeCode ==
    /\ ui.handler = "none"
    /\ \E typed \in PlayCodes :
          /\ ui.seedInput # typed
          /\ ui' = [ui EXCEPT !.seedInput = typed, !.pasted = FALSE]
    /\ UNCHANGED <<call, probe, args>>

\* generatePuzzle as the web app calls it: knobsToOverrides always gives
\* overrides.tileCount, so resolveSettings never draws
GenerateFromKnobs(c) ==
    \/ GenStart(c)
    \/ ResolveNoDraw(c)
    \/ BranchDraw(c)
    \/ BranchNoDraw(c)
    \/ UTopLen(c)
    \/ UBottomLen(c)
    \/ UTopChar(c)
    \/ UBottomChar(c)
    \/ UTweak(c)
    \/ UFinalTweak(c)
    \/ UMakeId(c)
    \/ OuterAttempt(c)
    \/ DrawBase(c)
    \/ DrawTotal(c)
    \/ PartitionAttempt(c)
    \/ DrawCut(c)
    \/ TargetAttempt(c)
    \/ DrawChar(c)
    \/ MakeId(c)
    \/ ShuffleDraw(c)

UIInit ==
    /\ call = [c \in {1, 2} |-> IdleCall]
    /\ probe = NoProbe
    /\ args = <<>>
    /\ ui = InitialUi

UINext ==
    \/ UIGenerate
    \/ UIPresetChange
    \/ UIGenerated
    \/ UIEditTileCount
    \/ UITypeSeed
    \/ UIPasteSeed
    \/ UIShareSeed
    \/ GenerateFromKnobs(1)

SpecUI == UIInit /\ [][UINext]_vars

\* a session of play: generating, typing a code, playing, the ladder
PlayNext ==
    \/ UIGenerate
    \/ UIGenerated
    \/ UIGenerateLadder
    \/ UILadderLevel
    \/ UILadderGenerated
    \/ UIMoveToLadderLevel
    \/ UITypeCode
    \/ UIStart
    \/ UIPlaceTile
    \/ UIShowSolution
    \/ UIClearSolution
    \/ UIGiveUp
    \/ UIResetStats
    \/ GenerateFromKnobs(1)

SpecPlay == UIInit /\ [][PlayNext]_vars

(***************************************************************************)
(* The bounded exploration: one call on any RNG output stream, for every   *)
(* small input, followed by accessor calls on the instance it returned.    *)
(***************************************************************************)
OptionOf(S) == {None} \cup {Some(x) : x \in S}

OverrideSpace ==
    [tileCount : OptionOf((0 - 1)..MaxTileOverride),
     minLength : OptionOf(1..MaxLenOverride),
     maxLength : OptionOf(1..MaxLenOverride),
     alphabet : {None, Some(<<>>), Some(<<"x">>)},
     alphabetSize : OptionOf(1..MaxSizeOverride),
     allowUnsolvable : OptionOf(BOOLEAN),
     forceUnique : OptionOf(BOOLEAN),
     theme : OptionOf({"binary", "wide"})]

\* b ^ e <= cap, without computing b ^ e
RECURSIVE PowAtMost(_, _, _)
PowAtMost(b, e, cap) ==
    IF e <= 0 THEN cap >= 1 ELSE cap >= b /\ PowAtMost(b, e - 1, cap \div b)

\* the largest tile count the input can resolve to
WorstTileCount(preset, ov) ==
    IF ov.tileCount # None THEN ov.tileCount[1]
    ELSE OrElse(PRESETS[preset].tileCountRange,
                <<PRESETS[preset].tileCount, PRESETS[preset].tileCount>>)[2]

\* the input is small enough to explore: short targets, few target strings,
\* and few pairs of strings per tile when the unsolvable branch can be taken
SmallInput(preset, ov) ==
    LET st == resolveSettings(preset, <<0, 0>>, ov)
        total == Max(WorstTileCount(preset, ov), 2) * st.maxLength
        chars == total * (IF st.allowUnsolvable THEN 2 ELSE 1)
    IN /\ total <= MaxTotal
       /\ PowAtMost(Max(1, Len(st.alphabet)), chars, MaxTargets)

\* the presets the exploration starts from
PresetsTried == {"easy"}

SeedInputs == {Some(<<32, 97, 32>>)}

Init ==
    /\ \E preset \in PresetsTried, seedIn \in SeedInputs, ov \in OverrideSpace :
          /\ SmallInput(preset, ov)
          /\ call = [c \in {1, 2} |->
                       IF c = 1 THEN NewCall(preset, seedIn, ov, BoundedLim) ELSE IdleCall]
    /\ probe = NoProbe
    /\ args = <<>>
    /\ ui = InitialUi

Next ==
    \/ Generate(1)
    \/ Validate
    \/ FindSolution
    \/ ValidateFound
    \/ MutateFound

Spec == Init /\ [][Next]_vars

(***************************************************************************)
(* Two calls, one after the other (generatePuzzle is synchronous), on the  *)
(* generator the source uses and with the source's retry ceilings.  args   *)
(* keeps what each call was given.                                          *)
(***************************************************************************)
Abc123 == <<97, 98, 99, 49, 50, 51>>

InputsTried ==
    {[preset |-> "easy", seedIn |-> Some(Abc123), ov |-> NoOverrides],
     [preset |-> "easy", seedIn |-> Some(Abc123),
      ov |-> [NoOverrides EXCEPT !.tileCount = Some(3)]],
     [preset |-> "easy", seedIn |-> Some(Abc123),
      ov |-> [NoOverrides EXCEPT !.minLength = Some(2)]],
     [preset |-> "easy", seedIn |-> Some(<<102>>),
      ov |-> [NoOverrides EXCEPT !.alphabetSize = Some(1),
                                 !.allowUnsolvable = Some(TRUE)]],
     [preset |-> "easy", seedIn |-> Some(<<116>>),
      ov |-> [NoOverrides EXCEPT !.tileCount = Some(2), !.minLength = Some(1),
                                 !.maxLength = Some(1)]],
     [preset |-> "medium", seedIn |-> Some(<<120>>), ov |-> NoOverrides],
     [preset |-> "expert", seedIn |-> Some(<<109>>), ov |-> NoOverrides],
     [preset |-> "easy", seedIn |-> Some(<<32>>), ov |-> NoOverrides],
     [preset |-> "easy", seedIn |-> Some(<<105>>),
      ov |-> [NoOverrides EXCEPT !.allowUnsolvable = Some(TRUE)]],
     [preset |-> "easy", seedIn |-> Some(<<101>>),
      ov |-> [NoOverrides EXCEPT !.forceUnique = Some(FALSE)]],
     [preset |-> "easy", seedIn |-> Some(<<109>>),
      ov |-> [NoOverrides EXCEPT !.tileCount = Some(4), !.minLength = Some(1),
                                 !.maxLength = Some(2)]],
     [preset |-> "easy", seedIn |-> Some(<<97>>),
      ov |-> [NoOverrides EXCEPT !.tileCount = Some(1)]],
     [preset |-> "easy", seedIn |-> Some(<<57>>),
      ov |-> [NoOverrides EXCEPT !.tileCount = Some(6), !.minLength = Some(1),
                                 !.maxLength = Some(2)]]}

PairInit ==
    /\ \E a \in InputsTried, b \in InputsTried :
          /\ a.seedIn = b.seedIn
          /\ call = [c \in {1, 2} |->
                       IF c = 1 THEN NewCall(a.preset, a.seedIn, a.ov, SourceLim)
                       ELSE NewCall(b.preset, b.seedIn, b.ov, SourceLim)]
          /\ args = <<a, b>>
    /\ probe = NoProbe
    /\ ui = InitialUi

PairNext ==
    \/ Generate(1)
    \/ Done(1) /\ Generate(2)

SpecPair == PairInit /\ [][PairNext]_vars

(***************************************************************************)
(* Two calls whose steps interleave in any order, as when the host runs    *)
(* them in parallel: each rng() call of either call is one step.           *)
(***************************************************************************)
\* the source's ceilings, the do-while guard of the unsolvable branch bounded
ShortGuardLim == [SourceLim EXCEPT !.guard = BoundGuard]

InterleavedInputs ==
    {[preset |-> "easy", seedIn |-> Some(<<102>>), ov |-> NoOverrides],
     [preset |-> "easy", seedIn |-> Some(<<102>>),
      ov |-> [NoOverrides EXCEPT !.tileCount = Some(3), !.alphabetSize = Some(1),
                                 !.allowUnsolvable = Some(TRUE)]]}

InterleavedInit ==
    /\ \E a \in InterleavedInputs, b \in InterleavedInputs :
          /\ call = [c \in {1, 2} |->
                       IF c = 1 THEN NewCall(a.preset, a.seedIn, a.ov, ShortGuardLim)
                       ELSE NewCall(b.preset, b.seedIn, b.ov, ShortGuardLim)]
          /\ args = <<a, b>>
    /\ probe = NoProbe
    /\ ui = InitialUi

InterleavedNext ==
    \/ Generate(1)
    \/ Generate(2)

SpecInterleaved == InterleavedInit /\ [][InterleavedNext]_vars

\* the bounded exploration, the running call never stopping for good
SpecFair == Init /\ [][Next]_vars /\ WF_vars(Generate(1))

(***************************************************************************)
(* The settings resolver on its own: a call is taken up to the end of      *)
(* resolveSettings, for every preset and a wide range of overrides.  The   *)
(* overrides vary one group of fields at a time.                           *)
(***************************************************************************)
LengthOverrides ==
    {[NoOverrides EXCEPT !.minLength = lo, !.maxLength = hi] :
        lo \in OptionOf((0 - 1)..MaxLengthTried),
        hi \in OptionOf((0 - 1)..MaxLengthTried)}

AlphabetOverrides ==
    {[NoOverrides EXCEPT !.alphabet = a, !.alphabetSize = n, !.theme = th] :
        a \in {None, Some(<<>>), Some(<<"x">>), Some(<<"y", "y", "z">>)},
        n \in OptionOf((0 - 1)..MaxSizeTried),
        th \in OptionOf({"preset", "binary", "wide"})}

TileCountOverrides ==
    {[NoOverrides EXCEPT !.tileCount = n] : n \in OptionOf((0 - 1)..MaxTileTried)}

ResolveInit ==
    /\ \E preset \in PresetNames,
          ov \in LengthOverrides \cup AlphabetOverrides \cup TileCountOverrides :
          /\ call = [c \in {1, 2} |->
                       IF c = 1 THEN NewCall(preset, Some(<<97>>), ov, BoundedLim)
                       ELSE IdleCall]
          /\ args = <<[preset |-> preset, seedIn |-> Some(<<97>>), ov |-> ov]>>
    /\ probe = NoProbe
    /\ ui = InitialUi

ResolveNext ==
    \/ GenStart(1)
    \/ ResolveDraw(1)
    \/ ResolveNoDraw(1)

SpecResolve == ResolveInit /\ [][ResolveNext]_vars

(***************************************************************************)
(* Properties of the returned instance and of the accessors.               *)
(***************************************************************************)
Returned(c) == call[c].pc = "returned"

\* the tile of the puzzle an id names, for an id one of its tiles has
TileOf(puzzle, id) ==
    puzzle.tiles[CHOOSE i \in 1..Len(puzzle.tiles) : puzzle.tiles[i].id = id]

KnownIds(puzzle) == {puzzle.tiles[i].id : i \in 1..Len(puzzle.tiles)}

\* the concatenation of the tops (side = "top") or bottoms the order names
RECURSIVE Concat(_, _, _)
Concat(puzzle, order, side) ==
    IF order = <<>> THEN <<>>
    ELSE (IF side = "top" THEN TileOf(puzzle, Head(order)).top
          ELSE TileOf(puzzle, Head(order)).bottom)
         \o Concat(puzzle, Tail(order), side)

EveryTile(c, P(_)) == \A i \in 1..Len(call[c].ret.tiles) : P(call[c].ret.tiles[i])

\* C1: whenever generatePuzzle returns an instance with solvable = true,
\* for any integer tileCount override, findSolution gives an order and
\* validateSolution accepts it.
C1_SolvedInstanceSoundness ==
    (Returned(1) /\ call[1].ret.solvable) =>
        /\ findSolution(call[1].ret) # None
        /\ validateSolution(call[1].ret, findSolution(call[1].ret)[1])

NonBlank(seedIn) == seedIn # None /\ Len(Trim(seedIn[1])) > 0

\* C2: two calls with the same preset, the same non-blank seed and the same
\* overrides both fail, or return the same settings, tiles (ids, tops,
\* bottoms, display order), solvable flag and solution.
C2_Determinism ==
    (Done(1) /\ Done(2) /\ args[1] = args[2] /\ NonBlank(args[1].seedIn)) =>
        /\ call[1].pc = call[2].pc
        /\ call[1].ret = call[2].ret

C2_TwoEqualCallsReturned ==
    /\ Returned(1) /\ Returned(2)
    /\ args[1] = args[2] /\ NonBlank(args[1].seedIn)
    /\ Len(call[2].ret.tiles) >= 3

\* C3: two calls with the same non-blank seed whose resolved settings are
\* identical produce identical tiles, solvable flag and solution (or both
\* fail), also when one reached the settings through an override and the
\* other through the preset defaults.
C3_FunctionOfSeedAndSettings ==
    (Done(1) /\ Done(2) /\ NonBlank(args[1].seedIn)
     /\ call[1].seed = call[2].seed /\ call[1].settings = call[2].settings) =>
        /\ call[1].pc = call[2].pc
        /\ call[1].ret.tiles = call[2].ret.tiles
        /\ call[1].ret.solvable = call[2].ret.solvable
        /\ call[1].ret.solution = call[2].ret.solution

\* C4: for a non-empty order whose ids all belong to the instance's tiles,
\* validateSolution returns true iff the concatenation of the tops equals
\* the concatenation of the bottoms, whatever the order's length and
\* whether or not ids repeat or every tile is used.
C4_ValidatorCorrect ==
    (probe.op = "validateSolution" /\ probe.order # <<>>
     /\ Range(probe.order) \subseteq KnownIds(call[1].ret)) =>
        (probe.ok <=> Concat(call[1].ret, probe.order, "top")
                       = Concat(call[1].ret, probe.order, "bottom"))

\* an accepted order that is shorter than the tile count
C4_ShortOrderAccepted ==
    /\ probe.op = "validateSolution" /\ probe.ok
    /\ Len(probe.order) = 2 /\ Len(call[1].ret.tiles) = 3
    /\ Range(probe.order) \subseteq KnownIds(call[1].ret)

\* C5: validateSolution returns false for the empty order, returns false
\* when the order holds an id no tile has, whatever the other ids, and
\* always returns a boolean.
C5_ValidatorTotal ==
    probe.op = "validateSolution" =>
        /\ probe.ok \in BOOLEAN
        /\ probe.order = <<>> => ~probe.ok
        /\ ~(Range(probe.order) \subseteq KnownIds(call[1].ret)) => ~probe.ok

\* a foreign id after the id of a tile, on an instance with tiles
C5_ForeignIdRejected ==
    /\ probe.op = "validateSolution" /\ ~probe.ok
    /\ Len(probe.order) = 2
    /\ probe.order[1] \in KnownIds(call[1].ret)
    /\ probe.order[2] \notin KnownIds(call[1].ret)

TopDiffers(tile) == tile.top # tile.bottom

\* C6: every tile of every returned instance, solvable or not, has
\* top # bottom, for every settings record including an alphabet of size 1
\* and minLength = maxLength.
C6_TopDiffersFromBottom == Returned(1) => EveryTile(1, TopDiffers)

LengthsInRange(tile) ==
    /\ Len(tile.top) >= call[1].ret.settings.minLength
    /\ Len(tile.top) <= call[1].ret.settings.maxLength
    /\ Len(tile.bottom) >= call[1].ret.settings.minLength
    /\ Len(tile.bottom) <= call[1].ret.settings.maxLength

\* C7: in every returned instance each tile's top length and bottom length
\* lie in [settings.minLength, settings.maxLength].
C7_LengthInvariant == Returned(1) => EveryTile(1, LengthsInRange)

OverAlphabet(tile) ==
    Range(tile.top) \cup Range(tile.bottom) \subseteq Range(call[1].ret.settings.alphabet)

\* C8: in every returned instance every character of every tile's top and
\* bottom is an element of settings.alphabet, wherever the alphabet came
\* from (preset, theme, alphabetSize or an explicit alphabet override).
C8_AlphabetContainment == Returned(1) => EveryTile(1, OverAlphabet)

\* C9: a returned instance carries a solution iff its solvable flag is
\* true, and findSolution returns null whenever solvable is false, also on
\* a record that holds a solution field.
C9_FlagConsistency ==
    /\ Returned(1) => ((call[1].ret.solution # None) <=> call[1].ret.solvable)
    /\ (probe.op = "findSolution" /\ (probe.cleared \/ ~call[1].ret.solvable)) =>
           probe.found = None
    /\ (probe.op = "findSolution" /\ ~probe.cleared /\ call[1].ret.solvable) =>
           probe.found = call[1].ret.solution

\* findSolution on a record with solvable = false that holds a solution
C9_ClearedFlagHidesSolution ==
    /\ probe.op = "findSolution" /\ probe.cleared
    /\ call[1].ret.solution # None /\ Len(call[1].ret.solution[1]) >= 2
    /\ probe.found = None

\* C10: every generatePuzzle call ends, by returning an instance or by
\* raising the generation error, for every RNG output stream.
C10_Terminates == <>Done(1)

C12_TileCountInRange ==
    Returned(1) =>
        call[1].ret.settings.tileCount \in TileCountLo..TileCountHi

\* resolveSettings has run for call 1
Resolved == call[1].pc = "branch"

\* C13: for every preset and every minLength / maxLength overrides the
\* resolved settings satisfy 1 <= minLength <= 48 and
\* minLength <= maxLength <= 64, and the inverted pair minLength 5,
\* maxLength 3 resolves to minLength 5, maxLength 5.
C13_LengthNormalisation ==
    Resolved =>
        LET st == call[1].settings
            ov == args[1].ov
        IN /\ 1 <= st.minLength /\ st.minLength <= 48
           /\ st.minLength <= st.maxLength /\ st.maxLength <= 64
           /\ (ov.minLength = Some(5) /\ ov.maxLength = Some(3)) =>
                  (st.minLength = 5 /\ st.maxLength = 5)

\* the inverted pair, resolved
C13_InvertedPairRaised ==
    /\ Resolved
    /\ args[1].ov.minLength = Some(5) /\ args[1].ov.maxLength = Some(3)
    /\ call[1].settings.minLength = 5 /\ call[1].settings.maxLength = 5

\* the first k symbols of the pool a..z
FirstOfPool(k) == [i \in 1..k |-> ALPHABET_POOL[i]]

NoDuplicates(q) == \A i, j \in 1..Len(q) : q[i] = q[j] => i = j

\* C14: an explicit alphabet override is used verbatim whatever the theme;
\* otherwise theme binary gives "0","1"; otherwise theme wide gives the
\* first n pool symbols with n in [5, 6] for every requested alphabetSize;
\* otherwise the first n pool symbols with n the overridden-or-preset size
\* clamped to [1, 26].  Without an explicit alphabet the result is never
\* empty and has no duplicates.
C14_AlphabetPrecedence ==
    Resolved =>
        LET st == call[1].settings
            ov == args[1].ov
            theme == IF ov.theme = None THEN "preset" ELSE ov.theme[1]
            size == IF ov.alphabetSize # None THEN ov.alphabetSize[1]
                    ELSE Len(PRESETS[args[1].preset].alphabet)
            n == IF size < 1 THEN 1 ELSE IF size > 26 THEN 26 ELSE size
        IN IF ov.alphabet # None THEN st.alphabet = ov.alphabet[1]
           ELSE /\ theme = "binary" => st.alphabet = <<"0", "1">>
                /\ theme = "wide" => \E k \in 5..6 : st.alphabet = FirstOfPool(k)
                /\ theme = "preset" => st.alphabet = FirstOfPool(n)
                /\ Len(st.alphabet) >= 1
                /\ NoDuplicates(st.alphabet)

\* theme wide with a requested size above the pool's: six symbols
C14_WideClamped ==
    /\ Resolved
    /\ args[1].ov.alphabet = None /\ args[1].ov.theme = Some("wide")
    /\ args[1].ov.alphabetSize # None /\ args[1].ov.alphabetSize[1] > 26
    /\ call[1].settings.alphabet = <<"a", "b", "c", "d", "e", "f">>

\* C15: when findSolution reports an instance as unsolvable (it returns
\* null because solvable = false), no non-empty order of the instance's
\* tile ids, repeats allowed, is accepted by validateSolution.
C15_UnsolvableHasNoSolution ==
    (Returned(1) /\ ~call[1].ret.solvable /\ findSolution(call[1].ret) = None
     /\ probe.op = "validateSolution" /\ probe.order # <<>>) =>
        ~probe.ok


\* puzzle q has the seed, preset, resolved knobs and tiles of puzzle p
SamePuzzle(q, p) ==
    /\ q.seed = p.seed
    /\ q.preset = p.preset
    /\ settingsToKnobs(q.settings) = settingsToKnobs(p.settings)
    /\ q.tiles = p.tiles

\* C16: after any preset changes, knob edits and generations, pasting the
\* share code of a puzzle P into the seed field and pressing Generate gives
\* a puzzle with the seed, preset, resolved knobs and tiles of P, whatever
\* the knobs of the control deck are set to.
C16_ShareCodeReplay ==
    (ui.handler = "none" /\ ui.replayed # None) =>
        /\ ui.outcome = "returned"
        /\ SamePuzzle(ui.puzzle[1], ui.replayed[1])



\* the generator state of call c is its own: a step leaves it or advances
\* it by the constant mulberry32 adds
OwnStream(c) ==
    (call[c].rng.kind = "mulberry32" /\ call'[c].rng.kind = "mulberry32") =>
        call'[c].rng.t \in {call[c].rng.t, Add32(call[c].rng.t, <<27947, 31221>>)}

\* C17: each generatePuzzle call owns its RNG state: with the draws of two
\* calls interleaved in any order, a step of one call changes nothing of
\* the other, each call's generator advances only by its own draws, and
\* two calls given the same arguments end with the same instance.
C17_GenerationsIndependent ==
    /\ []((Done(1) /\ Done(2) /\ args[1] = args[2]) =>
             (call[1].pc = call[2].pc /\ call[1].ret = call[2].ret))
    /\ [][/\ call'[1] # call[1] => (call'[2] = call[2] /\ OwnStream(1))
          /\ call'[2] # call[2] => (call'[1] = call[1] /\ OwnStream(2))]_vars

\* both calls, given the same arguments, are in the middle of their draws
\* and have made different numbers of them
C17_BothMidway ==
    /\ args[1] = args[2]
    /\ call[1].rng.kind = "mulberry32"
    /\ call[2].rng.kind = "mulberry32"
    /\ call[1].rng.t # call[2].rng.t
    /\ call[1].rng.t # Mulberry32(HashSeed(call[1].seed)).t
    /\ call[2].rng.t # Mulberry32(HashSeed(call[2].seed)).t



\* C18: the accessors are read-only: once returned, the instance (tiles,
\* solution, settings, flag) is never changed by validateSolution or
\* findSolution, findSolution returns a copy equal to instance.solution,
\* and a caller changing the returned array changes neither
\* instance.solution nor what a later findSolution call returns.
C18_AccessorsReadOnly ==
    /\ []((probe.op \in {"findSolution", "mutateFound"} /\ ~probe.cleared) =>
             probe.found = call[1].ret.solution)
    /\ [][Returned(1) => call'[1] = call[1]]_vars

\* the caller changed the array it was given; the instance and a later
\* findSolution call still give the recorded solution
C18_ChangedCopy ==
    /\ Returned(1)
    /\ probe.op = "mutateFound"
    /\ call[1].ret.solvable
    /\ Some(probe.order) # call[1].ret.solution
    /\ probe.found = call[1].ret.solution



\* the call of the example: preset "easy", seed "abc123", no overrides
ExampleInput == [preset |-> "easy", seedIn |-> Some(Abc123), ov |-> NoOverrides]

InPartition == call[1].pc \in {"pAttempt", "pCut"}

\* lens is what the contract allows randomPartition(rng, total, count,
\* minLen, maxLen) to return: count entries in [minLen, maxLen] summing to
\* total, the differences of count - 1 increasing cut points in (0, total)
PartitionOf(lens, total, count, minLen, maxLen) ==
    LET cutAt(k) == SumSeq(SubSeq(lens, 1, k))
    IN /\ Len(lens) = count
       /\ \A i \in 1..Len(lens) : lens[i] \in minLen..maxLen
       /\ SumSeq(lens) = total
       /\ \A k \in 1..(count - 1) : cutAt(k) \in 1..(total - 1)
       /\ \A k \in 1..(count - 2) : cutAt(k) < cutAt(k + 1)

\* inside randomPartition the arguments are feasible, the attempts within
\* the ceiling and the cut points in (0, total)
PartitionRunning ==
    LET s == call[1]
        st == s.settings
    IN InPartition =>
          /\ ~Infeasible(s.v.totalLength, st.tileCount, SMinLen(st), SMaxLen(st))
          /\ s.v.pAttempts <= s.lim.partition
          /\ s.pc = "pCut" => s.v.pAttempts < s.lim.partition
          /\ s.v.cuts \subseteq 1..(s.v.totalLength - 1)
          /\ s.pc = "pCut" => Cardinality(s.v.cuts) < st.tileCount - 1

\* a step in which both randomPartition calls return without a draw, and a
\* step in which the call for the top lengths returns
PartitionReturns ==
    LET s == call[1]
        t == call'[1]
        st == s.settings
    IN /\ (s.pc = "sTotal" /\ t.pc = "sBase") =>
             /\ Infeasible(t.v.totalLength, st.tileCount, SMinLen(st), SMaxLen(st))
             /\ t.v.topParts = None
             /\ t.v.bottomParts = None
       /\ (InPartition /\ s.v.which = "top" /\ t.v.which = "bottom") =>
             IF t.v.topParts = None
             THEN s.pc = "pAttempt" /\ s.v.pAttempts = s.lim.partition
             ELSE PartitionOf(t.v.topParts[1], s.v.totalLength, st.tileCount,
                              SMinLen(st), SMaxLen(st))

\* C20: randomPartition returns "no partition found" at once, without an
\* RNG draw, when total < count*minLen or total > count*maxLen; otherwise
\* it makes at most the ceiling's number of attempts (100 in the source),
\* its cut points are in (0,total), and what it returns (here to the call
\* for the top lengths) has count entries in [minLen,maxLen] summing to
\* total, or is "no partition found" after the last attempt.
C20_PartitionerContract == []PartitionRunning /\ [][PartitionReturns]_vars

\* randomPartition returned three top lengths, not all equal, and the call
\* for the bottom lengths is drawing its cuts
C20_TopPartitionReturned ==
    /\ call[1].pc = "pCut"
    /\ call[1].v.which = "bottom"
    /\ call[1].v.topParts # None
    /\ Len(call[1].v.topParts[1]) = 3
    /\ call[1].v.topParts[1][1] # call[1].v.topParts[1][3]



\* the tiles of a sequence, as a set of id/top/bottom triples
TileSet(tiles) == {tiles[i] : i \in 1..Len(tiles)}

\* the returned instance has settings.tileCount tiles with pairwise
\* distinct ids; a solvable one lists every id once, in construction order
\* (the id of the i-th constructed tile carries the index i - 1)
TilesAndSolution ==
    LET puzzle == call[1].ret
        tiles == puzzle.tiles
    IN Returned(1) =>
          /\ Len(tiles) = puzzle.settings.tileCount
          /\ \A i, j \in 1..Len(tiles) : tiles[i].id = tiles[j].id => i = j
          /\ puzzle.solvable =>
                /\ puzzle.solution # None
                /\ Len(puzzle.solution[1]) = Len(tiles)
                /\ {tiles[i].id : i \in 1..Len(tiles)} = Range(puzzle.solution[1])
                /\ \A i \in 1..Len(tiles) : puzzle.solution[1][i][1] = i - 1

\* a step of the shuffle, and the return that ends it, keep the tiles
\* constructed: the same triples, in some order
ShuffleKeepsTiles ==
    LET s == call[1]
        t == call'[1]
        after == IF t.pc = "returned" THEN t.ret.tiles ELSE t.v.tiles
    IN (s.pc = "sShuffle" /\ t # s) =>
          /\ Len(after) = Len(s.v.tiles)
          /\ TileSet(after) = TileSet(s.v.tiles)
          /\ t.pc = "returned" => t.ret.solution = Some(s.v.solution)

\* C21: every returned instance has exactly settings.tileCount tiles with
\* pairwise distinct ids; in a solvable instance the displayed tiles are a
\* permutation of the constructed tiles and the solution lists every tile
\* id exactly once, in construction order.
C21_TilesPermuted == []TilesAndSolution /\ [][ShuffleKeepsTiles]_vars



\* where a call is: in the unsolvable builder, in the solvable builder
UnsolvablePcs == {"uTopLen", "uBottomLen", "uTop", "uBottom", "uTweak", "uFinalTweak", "uId"}

SolvablePcs ==
    {"sOuter", "sBase", "sTotal", "pAttempt", "pCut", "sTarget", "sChar", "sId", "sShuffle"}

\* the call is in the unsolvable builder or has returned from it
TookUnsolvable(t) == t.pc \in UnsolvablePcs \/ (t.pc = "returned" /\ ~t.ret.solvable)

\* the step after settings resolution draws once when allowUnsolvable is
\* set and takes the unsolvable builder iff that draw exceeds 0.6; it
\* draws nothing when allowUnsolvable is unset; a builder, once entered,
\* is the one the call returns from
BranchDecision ==
    LET s == call[1]
        t == call'[1]
    IN (t # s) =>
          /\ (s.pc = "branch" /\ ~s.settings.allowUnsolvable) =>
                (t.rng = s.rng /\ t.pc = "sOuter")
          /\ (s.pc = "branch" /\ s.settings.allowUnsolvable) =>
                \E x \in Draws(s.rng) :
                   /\ t.pc # "returned" => t.rng = x.next
                   /\ TookUnsolvable(t) <=> GreaterThanSixTenths(x.d)
                   /\ ~TookUnsolvable(t) => t.pc = "sOuter"
          /\ s.pc \in UnsolvablePcs => TookUnsolvable(t)
          /\ s.pc \in SolvablePcs =>
                \/ t.pc \in SolvablePcs
                \/ t.pc = "thrown"
                \/ t.pc = "returned" /\ t.ret.solvable

\* C22: generatePuzzle returns an instance with solvable=false if and only
\* if the resolved allowUnsolvable is true and the single RNG draw taken
\* right after settings resolution exceeds 0.6; when allowUnsolvable is
\* false the draw is not taken and every returned instance is solvable.
C22_BranchDecision ==
    /\ [](Returned(1) => (~call[1].ret.solvable => call[1].ret.settings.allowUnsolvable))
    /\ [][BranchDecision]_vars

\* an instance of two or more tiles returned by the unsolvable builder
C22_UnsolvableReturned ==
    /\ Returned(1)
    /\ ~call[1].ret.solvable
    /\ call[1].ret.settings.allowUnsolvable
    /\ Len(call[1].ret.tiles) >= 2



\* the number of positions where the running top offset equals the
\* running bottom offset and the two segment lengths are equal
AlignedEquals(topParts, bottomParts) ==
    Cardinality({i \in 1..Min(Len(topParts), Len(bottomParts)) :
                    /\ SumSeq(SubSeq(topParts, 1, i - 1)) = SumSeq(SubSeq(bottomParts, 1, i - 1))
                    /\ topParts[i] = bottomParts[i]})

\* T of the claim
Tolerance(st) == IF st.tileCount < 6 THEN 0 ELSE 1

\* where tiles are sliced from a partition pair
SlicingPcs == {"sTarget", "sChar", "sId", "sShuffle"}

\* the i-th constructed tile of an instance: the one whose id carries i - 1
Constructed(puzzle, i) ==
    CHOOSE tile \in TileSet(puzzle.tiles) : tile.id[1] = i - 1

\* the partition pair a solvable instance was sliced from
TopPartsOf(puzzle) == [i \in 1..Len(puzzle.tiles) |-> Len(Constructed(puzzle, i).top)]

BottomPartsOf(puzzle) == [i \in 1..Len(puzzle.tiles) |-> Len(Constructed(puzzle, i).bottom)]

\* with forceUnique, the pair being sliced and the pair of a returned
\* instance are within the tolerance
PairWithinTolerance ==
    LET s == call[1]
    IN /\ (s.pc \in SlicingPcs /\ s.settings.forceUnique) =>
             AlignedEquals(s.v.topParts[1], s.v.bottomParts[1]) <= Tolerance(s.settings)
       /\ (Returned(1) /\ s.ret.solvable /\ s.ret.settings.forceUnique) =>
             AlignedEquals(TopPartsOf(s.ret), BottomPartsOf(s.ret)) <= Tolerance(s.ret.settings)

\* without forceUnique, a pair randomPartition completes is sliced
\* whenever top and bottom differ somewhere, and no outer attempt ends at
\* the alignment test
NoAlignmentRejection ==
    LET s == call[1]
        t == call'[1]
        st == s.settings
    IN (t # s /\ ~st.forceUnique) =>
          /\ (s.pc \in {"sTotal", "pAttempt", "pCut"}) => t.pc # "sOuter"
          /\ (s.pc = "pCut" /\ s.v.which = "bottom" /\ s.v.topParts # None
              /\ t.pc \notin {"pCut", "pAttempt"}) =>
                \A x \in Draws(s.rng) :
                   LET cuts == s.v.cuts \cup {1 + ScaleFloor(x.d, s.v.totalLength - 1)}
                       lens == PartitionLens(cuts, s.v.totalLength, SMinLen(st), SMaxLen(st))
                   IN (lens # None /\ HasDiff(s.v.topParts[1], lens[1])) =>
                         /\ t.pc \in SlicingPcs
                         /\ t.v.topParts = s.v.topParts
                         /\ t.v.bottomParts = lens

\* C23: with forceUnique set, every top/bottom partition pair from which a
\* returned instance is sliced (random or fallback) has at most T positions
\* where the running offsets are equal and the segment lengths are equal,
\* T = 0 if tileCount < 6 and 1 otherwise; with forceUnique false no
\* partition pair is rejected for alignment.
C23_UniquenessFilter == []PairWithinTolerance /\ [][NoAlignmentRejection]_vars

\* six tiles are being sliced from a pair that uses the tolerance of one
C23_ToleranceUsed ==
    /\ call[1].pc \in SlicingPcs
    /\ call[1].settings.forceUnique
    /\ call[1].settings.tileCount >= 6
    /\ AlignedEquals(call[1].v.topParts[1], call[1].v.bottomParts[1]) = 1

\* the (top, bottom) pairs of a tile list
PairsOf(tiles) == {<<tiles[i].top, tiles[i].bottom>> : i \in 1..Len(tiles)}

\* the slices the tile loop takes for the tile after the one at "sId"
NextSlices(s) ==
    LET n == s.v.i + 2
        topOffset == s.v.topOffset + s.v.topParts[1][n - 1]
        bottomOffset == s.v.bottomOffset + s.v.bottomParts[1][n - 1]
    IN <<Slice(s.v.target, topOffset, topOffset + s.v.topParts[1][n]),
         Slice(s.v.target, bottomOffset, bottomOffset + s.v.bottomParts[1][n])>>

\* the tile after the one at "sId" would repeat a pair of the instance
RepeatsPair(s) ==
    /\ s.pc = "sId"
    /\ s.v.i + 1 < s.settings.tileCount
    /\ NextSlices(s) \in PairsOf(s.v.tiles) \cup {<<s.v.top, s.v.bottom>>}

\* the tiles built so far, the tile being added and the tiles of a
\* returned solvable instance carry pairwise different pairs; the target
\* attempts of one partition pair stay below the ceiling of 60
NoDuplicatePairs ==
    LET s == call[1]
    IN /\ (Returned(1) /\ s.ret.solvable) =>
             Cardinality(PairsOf(s.ret.tiles)) = Len(s.ret.tiles)
       /\ s.pc \in {"sId", "sShuffle"} =>
             Cardinality(PairsOf(s.v.tiles)) = Len(s.v.tiles)
       /\ s.pc = "sId" => <<s.v.top, s.v.bottom>> \notin PairsOf(s.v.tiles)
       /\ s.pc \in {"sChar", "sId", "sShuffle"} => s.v.targetAttempt < TargetCeiling
       /\ s.pc = "sTarget" => s.v.targetAttempt <= TargetCeiling

\* a repeating target is dropped and the next target attempt of the same
\* partition pair begins; the attempts of a pair are counted from 0, and
\* after the last one the outer attempt ends
RepeatRedrawn ==
    LET s == call[1]
        t == call'[1]
    IN (t # s) =>
          /\ RepeatsPair(s) =>
                /\ t.pc = "sTarget"
                /\ t.v.tiles = <<>>
                /\ t.v.targetAttempt = s.v.targetAttempt + 1
                /\ t.v.topParts = s.v.topParts /\ t.v.bottomParts = s.v.bottomParts
          /\ (s.pc \notin SlicingPcs /\ t.pc \in SlicingPcs) => t.v.targetAttempt = 0
          /\ (s.pc \in SlicingPcs /\ t.pc \in SlicingPcs) =>
                /\ t.v.topParts = s.v.topParts /\ t.v.bottomParts = s.v.bottomParts
                /\ t.v.targetAttempt \in {s.v.targetAttempt, s.v.targetAttempt + 1}
          /\ (s.pc = "sTarget" /\ s.v.targetAttempt = TargetCeiling) =>
                (t.pc = "sOuter" /\ t.v.attempts = s.v.attempts + 1)

\* C24: in every instance returned with solvable=true no two tiles have
\* the same (top, bottom) pair; a target string whose slicing would repeat
\* a pair is rejected and redrawn, at most 60 times per partition pair.
C24_NoDuplicateTiles == []NoDuplicatePairs /\ [][RepeatRedrawn]_vars

\* a tile has been sliced and the next one would repeat a pair, with top
\* and bottom of that next tile different from each other
C24_RepeatFound ==
    /\ RepeatsPair(call[1])
    /\ NextSlices(call[1])[1] # NextSlices(call[1])[2]

\* where the inner loop of buildSolvableTiles is
InnerPcs == {"sTotal", "pAttempt", "pCut"}

\* the try of the inner loop goes on after the step
Running == <<"running">>

\* the pair of partitions the try in progress ends with when the step from
\* s on draw x ends it
TryPair(s, x) ==
    LET st == s.settings
        total == IF s.pc = "sTotal"
                 THEN Min(SMaxTotal(st),
                          Max(SMinTotal(st),
                              s.v.base + ScaleFloor(x.d, SMaxLen(st) - SMinLen(st) + 1)))
                 ELSE s.v.totalLength
        cuts == IF s.pc = "pCut" THEN s.v.cuts \cup {1 + ScaleFloor(x.d, total - 1)} ELSE {}
        lens == PartitionLens(cuts, total, SMinLen(st), SMaxLen(st))
        complete == IF lens = None \/ s.v.which = "top" THEN Running
                    ELSE <<s.v.topParts, lens>>
    IN CASE s.pc = "sTotal" ->
              IF Infeasible(total, st.tileCount, SMinLen(st), SMaxLen(st))
              THEN <<None, None>> ELSE Running
         [] s.pc = "pAttempt" ->
              IF s.v.pAttempts >= s.lim.partition
              THEN IF s.v.which = "bottom" THEN <<s.v.topParts, None>> ELSE Running
              ELSE IF 0 < st.tileCount - 1 THEN Running ELSE complete
         [] s.pc = "pCut" ->
              IF Cardinality(cuts) < st.tileCount - 1 THEN Running ELSE complete
         [] OTHER -> Running

\* the step from s on draw x ends the last of the inner tries without a
\* pair, so that the fallback pair is built
FallbackUsed(s, x) ==
    LET pair == TryPair(s, x)
        st == s.settings
    IN /\ s.pc \in InnerPcs
       /\ pair # Running
       /\ s.v.tries + 1 >= s.lim.inner
       /\ \/ pair[1] = None
          \/ pair[2] = None
          \/ ~HasDiff(pair[1][1], pair[2][1])
          \/ st.forceUnique /\ AlignedEquals(pair[1][1], pair[2][1]) > Tolerance(st)

\* the fallback top partition of the settings has tileCount parts, each in
\* [minLen, maxLen], and a sum a partition of tileCount parts can have
FallbackWellFormed(st) ==
    LET base == FallbackBase(st.tileCount, SMinLen(st), SMaxLen(st))
    IN /\ Len(base) = st.tileCount
       /\ \A i \in 1..Len(base) : SMinLen(st) <= base[i] /\ base[i] <= SMaxLen(st)
       /\ st.tileCount * SMinLen(st) <= SumSeq(base)
       /\ SumSeq(base) <= st.tileCount * SMaxLen(st)

\* a step that builds the fallback pair: the pair is well formed, the
\* bottom is the top reversed, and the alignment test comes before slicing
FallbackContract ==
    LET s == call[1]
        t == call'[1]
        st == s.settings
        base == FallbackBase(st.tileCount, SMinLen(st), SMaxLen(st))
    IN (t # s /\ s.lim.rng = "mulberry32") =>
          \A x \in Draws(s.rng) :
             FallbackUsed(s, x) =>
                /\ FallbackWellFormed(st)
                /\ IF st.forceUnique /\ AlignedEquals(base, Reverse(base)) > Tolerance(st)
                   THEN t.pc = "sOuter" /\ t.v.attempts = s.v.attempts + 1
                   ELSE /\ t.pc = "sTarget"
                        /\ t.v.tiles = <<>>
                        /\ t.v.topParts = Some(base)
                        /\ t.v.bottomParts = Some(Reverse(base))
                        /\ t.v.totalLength = SumSeq(base)
                        /\ SumSeq(t.v.topParts[1]) = SumSeq(t.v.bottomParts[1])

\* C25: when the 50 inner tries yield no partition pair, the fallback pair
\* has exactly tileCount parts in the top and in the bottom partition,
\* every part in [minLen, maxLen], the bottom partition is the reverse of
\* the top one, both sum to the same totalLength with tileCount x minLen
\* <= totalLength <= tileCount x maxLen, and the pair goes through the
\* forceUnique alignment check before any tile is sliced.
C25_FallbackPartition == [][FallbackContract]_vars

\* the resolved minLength equals the resolved maxLength
EqualLengths(st) == st.minLength = st.maxLength

\* with equal lengths no solvable instance is returned, and a pair being
\* sliced is pointwise identical
EqualLengthsNoInstance ==
    LET s == call[1]
    IN /\ (Returned(1) /\ s.ret.solvable) => ~EqualLengths(s.ret.settings)
       /\ (s.pc \in SlicingPcs /\ EqualLengths(s.settings)) =>
             s.v.topParts = s.v.bottomParts

\* with equal lengths no tile is ever accepted, every outer attempt ends
\* at the head of the outer loop, and the call throws only there, once the
\* attempts have reached the ceiling
EqualLengthsFail ==
    LET s == call[1]
        t == call'[1]
    IN (t # s) =>
          /\ (s.pc \in SolvablePcs /\ EqualLengths(s.settings)) =>
                /\ t.pc \in {"sOuter", "sBase", "sTotal", "pAttempt", "pCut",
                              "sTarget", "sChar", "thrown"}
                /\ t.pc = "sOuter" =>
                      (s.pc # "sOuter" /\ t.v.attempts = s.v.attempts + 1)
          /\ (t.pc = "thrown" /\ s.pc # "thrown") =>
                (s.pc = "sOuter" /\ s.v.attempts = s.lim.outer)

\* C26: whenever the resolved minLength equals maxLength and the solvable
\* branch is taken, generatePuzzle never returns an instance: every
\* partition pair is pointwise identical, every outer attempt fails, and
\* the call ends with the generation error after the ceiling of outer
\* attempts, for every tileCount, alphabet and forceUnique value.
C26_EqualLengthsThrow == []EqualLengthsNoInstance /\ [][EqualLengthsFail]_vars

\* the top and the bottom lengths of the tiles in the order of the solution
SolutionTopLens(puzzle) ==
    [k \in 1..Len(puzzle.solution[1]) |-> Len(TileOf(puzzle, puzzle.solution[1][k]).top)]

SolutionBottomLens(puzzle) ==
    [k \in 1..Len(puzzle.solution[1]) |-> Len(TileOf(puzzle, puzzle.solution[1][k]).bottom)]

\* C27: in every returned solvable instance, whatever forceUnique and the
\* tolerance are, the construction order has no alignment coincidence: at
\* every position where the cumulative top length equals the cumulative
\* bottom length the tile's top and bottom lengths differ; in particular
\* the first and the last tile of the solution have top length # bottom
\* length.
C27_NoCoincidence ==
    (Returned(1) /\ call[1].ret.solvable) =>
        LET tops == SolutionTopLens(call[1].ret)
            bottoms == SolutionBottomLens(call[1].ret)
            n == Len(tops)
        IN /\ AlignedEquals(tops, bottoms) = 0
           /\ n >= 1 => (tops[1] # bottoms[1] /\ tops[n] # bottoms[n])

\* a returned solvable instance made without forceUnique in which a tile
\* after the first has top and bottom of one length, at different offsets
C27_EqualLengthsApart ==
    /\ Returned(1)
    /\ call[1].ret.solvable
    /\ ~call[1].ret.settings.forceUnique
    /\ \E k \in 2..Len(call[1].ret.solution[1]) :
          SolutionTopLens(call[1].ret)[k] = SolutionBottomLens(call[1].ret)[k]

\* the pair being sliced is the fallback pair of the settings
SlicingFallback(s) ==
    LET st == s.settings
        base == FallbackBase(st.tileCount, SMinLen(st), SMaxLen(st))
    IN /\ s.pc \in SlicingPcs
       /\ s.v.topParts = Some(base)
       /\ s.v.bottomParts = Some(Reverse(base))

\* generation does not fail for two tiles with minLength < maxLength
NoFailureForTwo ==
    call[1].pc = "thrown" =>
        ~(call[1].settings.tileCount = 2
          /\ call[1].settings.minLength < call[1].settings.maxLength)

\* an outer attempt slicing the fallback pair returns an instance only for
\* two tiles; for three tiles or more no tile of it is ever accepted; for
\* two tiles and minLength < maxLength its first target is accepted
FallbackOutcome ==
    LET s == call[1]
        t == call'[1]
        st == s.settings
    IN (t # s /\ SlicingFallback(s)) =>
          /\ t.pc = "returned" => st.tileCount = 2
          /\ st.tileCount >= 3 => t.pc \in {"sTarget", "sChar", "sOuter"}
          /\ (st.tileCount = 2 /\ st.minLength < st.maxLength) =>
                /\ s.v.targetAttempt = 0
                /\ t.pc \in {"sChar", "sId", "sShuffle", "returned"}
                /\ t.pc = "returned" => (t.ret.solvable /\ Len(t.ret.tiles) = 2)

\* C28: the fallback partition pair can produce a returned instance only
\* when tileCount = 2: for every tileCount >= 3 an outer attempt that uses
\* the fallback pair always fails, while for tileCount = 2 with minLength <
\* maxLength an outer attempt that reaches the fallback always succeeds,
\* so generation never fails for such settings.
C28_FallbackOnlyForTwo == []NoFailureForTwo /\ [][FallbackOutcome]_vars

\* C29 (web app): after any sequence of operations (Generate, Start, place
\* tile, Show solution, Clear solution row, Reset, Give up, ladder
\* navigation), whenever status is "playing" the timer is running:
\* startTime is not null.
C29_PlayingHasTimer == ui.status = "playing" => ui.startTime # None

\* the solution row wins: not empty, no longer than tileCount, validated
WinningRow ==
    ui.status = "solved" =>
        /\ ui.puzzle # None
        /\ ui.slots # <<>>
        /\ Len(ui.slots) <= ui.puzzle[1].settings.tileCount
        /\ validateSolution(ui.puzzle[1], ui.slots)

\* a step that replaces the puzzle also empties the row and sets status
\* to "idle"
ReplacingResets ==
    ui'.puzzle # ui.puzzle =>
        (ui'.slots = <<>> /\ ui'.status = "idle" /\ ui'.startTime = None)

\* C30 (web app): after any sequence of operations, whenever status is
\* "solved" the solution row is a winning one for the current puzzle: slots
\* is non-empty, has at most settings.tileCount entries and
\* validateSolution(puzzle, slots) is true; every operation that replaces
\* the puzzle also resets slots and status.
C30_SolvedRowWins == []WinningRow /\ [][ReplacingResets]_vars

\* a row placed by hand was found winning: the puzzle has no recorded
\* solution that Show solution could have put there
C30_SolvedByPlacing ==
    /\ ui.status = "solved"
    /\ ui.puzzle # None
    /\ findSolution(ui.puzzle[1]) = None
    /\ Len(ui.slots) = 2


====
